---- MODULE Spec2Model ----
(***************************************************************************)
(* A model of the 8080 emulator core: Memory, Flags, the stack and         *)
(* control-flow primitives of emulator/src/cpu.rs, and the opcode          *)
(* dispatcher of emulator/src/cpu/dispatcher.rs.                           *)
(*                                                                         *)
(* A Rust panic (array index out of bounds, a failed assert_ne!, an        *)
(* explicit panic!, an arithmetic overflow in a build with overflow        *)
(* checks) aborts the call: the model records it as a result of kind       *)
(* "Panic" and nothing runs afterwards.  Whether u16 arithmetic panics or  *)
(* wraps on overflow depends on the build profile, so the profile is part  *)
(* of the state (overflow_checks) and both are explored.  The dispatcher   *)
(* calls daa, whose body is in no source file and which the design does    *)
(* not describe: what it returns is left open (daa_outcome).               *)
(***************************************************************************)
EXTENDS Integers, Sequences, FiniteSets, TLC

VARIABLES
    cpu,              \* the Cpu struct: registers, sp, pc, memory, flags
    hardware,         \* the Hardware struct: shift register and ports
    overflow_checks,  \* build profile: TRUE = debug (overflow panics), FALSE = release (wraps)
    daa_outcome,      \* what the build's daa leaves: [result, flags], not known from the source
    fn,               \* name of the function called last ("none" before any call)
    arg,              \* its arguments, as a sequence of numbers
    pre,              \* the Cpu as it was when that call was made
    pre_hardware,     \* the Hardware as it was when that call was made
    result,           \* what the call returned: [kind, val]
    prev,             \* the call before it: [fn, arg, pre, result], and in its
                      \* field before the call before that one
    steps,            \* number of calls made so far
    frame,            \* the locals of main's run loop and its position in the loop body
    trace             \* history: the interrupt requests made and the calls not yet returned from

vars == <<cpu, hardware, overflow_checks, daa_outcome, fn, arg, pre, pre_hardware,
          result, prev, steps, frame, trace>>

---------------------------------------------------------------------------
(* Bounds of the exploration *)

MaxCalls == 3
MaxMemCalls == 2
MaxSteps == 3
MaxRotates == 2
MaxIoCalls == 2
MaxInterruptSteps == 3
MaxPswSteps == 3
MaxAbsoluteSteps == 3
MaxDriverSteps == 1
MaxHandlerSteps == 4
MaxLifoSteps == 6
MaxFrames == 2

---------------------------------------------------------------------------
(* Machine-word helpers *)

U8  == 256
U16 == 65536

Bit(x, i) == (x \div (2 ^ i)) % 2

BitAnd(x, y) ==
    Bit(x, 0) * Bit(y, 0)       + Bit(x, 1) * Bit(y, 1) * 2
  + Bit(x, 2) * Bit(y, 2) * 4   + Bit(x, 3) * Bit(y, 3) * 8
  + Bit(x, 4) * Bit(y, 4) * 16  + Bit(x, 5) * Bit(y, 5) * 32
  + Bit(x, 6) * Bit(y, 6) * 64  + Bit(x, 7) * Bit(y, 7) * 128

BitOr(x, y) == x + y - BitAnd(x, y)

BitXor(x, y) == x + y - 2 * BitAnd(x, y)

\* u16 | u16, byte by byte
BitOr16(x, y) ==
    BitOr(x \div 256, y \div 256) * 256 + BitOr(x % 256, y % 256)

\* x as u16 / x as u8 of a wider integer
Wrap16(x) == x % U16
Wrap8(x)  == x % U8

\* a u16 computation whose mathematical value is x: does it panic in this build?
Overflows(oc, x) == oc /\ (x < 0 \/ x >= U16)

---------------------------------------------------------------------------
(* Memory: held_memory is an array of MEM_SIZE bytes, all zero at first.   *)
(* The model keeps only the cells that are not zero.                       *)

MEM_SIZE == 65535

Memory_init == [x \in {} |-> 0]

\* indexing held_memory[addr] panics unless addr < held_memory.len()
InBounds(addr) == addr >= 0 /\ addr < MEM_SIZE

read_at(memory, addr) == IF addr \in DOMAIN memory THEN memory[addr] ELSE 0

write_at(memory, addr, byte) ==
    IF byte = 0
    THEN [x \in (DOMAIN memory) \ {addr} |-> memory[x]]
    ELSE [x \in (DOMAIN memory) \cup {addr} |-> IF x = addr THEN byte ELSE memory[x]]

\* an access at the u16 address whose mathematical value is x
AccessFaults(oc, x) == Overflows(oc, x) \/ ~InBounds(Wrap16(x))

---------------------------------------------------------------------------
(* Flags: one byte; S = bit 7, Z = bit 6, AC = bit 4, P = bit 2, CY = bit 0 *)

FlagMask(flag) ==
    CASE flag = "S"  -> 128
      [] flag = "Z"  -> 64
      [] flag = "AC" -> 16
      [] flag = "P"  -> 4
      [] flag = "CY" -> 1

Flags_new == 0

\* the value that stands for "the assert_ne! in set_flag / clear_flag failed"
FLAGS_ABORT == -1

\* assert_ne!(self.flags << 5, 0b11100000), the shift being done in u8
flag_assert_holds(flags) == Wrap8(flags * 32) # 224

\* self.flags | mask and self.flags & !mask, for a mask of one bit
SetBit(byte, mask)   == IF (byte \div mask) % 2 = 1 THEN byte ELSE byte + mask
ClearBit(byte, mask) == IF (byte \div mask) % 2 = 1 THEN byte - mask ELSE byte

\* the assertion that ends set_flag and clear_flag
asserted(new) == IF flag_assert_holds(new) THEN new ELSE FLAGS_ABORT

set_flag(flags, flag) ==
    IF flags = FLAGS_ABORT THEN FLAGS_ABORT
    ELSE asserted(SetBit(flags, FlagMask(flag)))

clear_flag(flags, flag) ==
    IF flags = FLAGS_ABORT THEN FLAGS_ABORT
    ELSE asserted(ClearBit(flags, FlagMask(flag)))

check_flag(flags, flag) == (flags \div FlagMask(flag)) % 2

clear_flags(flags) == 0

---------------------------------------------------------------------------
(* Register pairs *)

pair_registers(reg_1, reg_2) == reg_1 * 256 + reg_2

split_register_pair(reg_pair) == <<(reg_pair \div 256) % 256, reg_pair % 256>>

---------------------------------------------------------------------------
(* The Cpu *)

Cpu_init ==
    [a |-> 0, b |-> 0, c |-> 0, d |-> 0, e |-> 0, h |-> 0, l |-> 0,
     sp |-> 9216, pc |-> 0, memory |-> Memory_init, flags |-> Flags_new,
     interrupt_enabled |-> FALSE]

---------------------------------------------------------------------------
(* Stack and control-flow primitives.  An Option is a sequence: None is    *)
(* <<>> and Some(x) is <<x>>.                                              *)

\* Cpu::reset(&mut self): the registers, the pointers, the memory and the
\* flags go back to their initial values; no other field is assigned
Cpu_reset(st) ==
    [st EXCEPT !.a = 0, !.b = 0, !.c = 0, !.d = 0, !.e = 0, !.h = 0, !.l = 0,
               !.sp = 9216, !.pc = 0, !.memory = Memory_init, !.flags = Flags_new]

None == <<>>
Some(x) == <<x>>

\* condition.is_none() | condition.is_some_and(|condition| condition == true)
condition_met(condition) == condition = None \/ condition = Some(TRUE)

\* (variant used to test C3) a jmp that composes the operand bytes high byte first
jmp_big_endian(address_bytes, condition) ==
    IF condition_met(condition)
    THEN Some(pair_registers(address_bytes[1], address_bytes[2]))
    ELSE None

jmp(address_bytes, condition) ==
    IF condition_met(condition)
    THEN Some(pair_registers(address_bytes[2], address_bytes[1]))
    ELSE None

\* memory.write_at(sp, bytes.0); memory.write_at(sp - 1, bytes.1); sp -= 2
push(data_bytes, stack_pointer, memory) ==
    [memory |-> write_at(write_at(memory, stack_pointer, data_bytes[1]),
                         Wrap16(stack_pointer - 1), data_bytes[2]),
     sp     |-> Wrap16(stack_pointer - 2)]

push_faults(oc, stack_pointer) ==
    \/ ~InBounds(stack_pointer)
    \/ AccessFaults(oc, stack_pointer - 1)
    \/ Overflows(oc, stack_pointer - 2)

\* (variant used to test C1) a pop that reads the two cells in the order push wrote them
pop_swapped(stack_pointer, memory) ==
    [bytes  |-> <<read_at(memory, Wrap16(stack_pointer + 1)),
                  read_at(memory, Wrap16(stack_pointer + 2))>>,
     memory |-> write_at(write_at(memory, Wrap16(stack_pointer + 1), 0),
                         Wrap16(stack_pointer + 2), 0),
     sp     |-> Wrap16(stack_pointer + 2)]

\* byte_1 = read_at(sp + 2); byte_2 = read_at(sp + 1); both cells zeroed; sp += 2
pop(stack_pointer, memory) ==
    [bytes  |-> <<read_at(memory, Wrap16(stack_pointer + 2)),
                  read_at(memory, Wrap16(stack_pointer + 1))>>,
     memory |-> write_at(write_at(memory, Wrap16(stack_pointer + 1), 0),
                         Wrap16(stack_pointer + 2), 0),
     sp     |-> Wrap16(stack_pointer + 2)]

pop_faults(oc, stack_pointer) ==
    \/ AccessFaults(oc, stack_pointer + 2)
    \/ AccessFaults(oc, stack_pointer + 1)

\* (variant used to test C4) a call that pushes the return address before
\* it looks at the condition
call_always_pushes(address_bytes, condition, stack_pointer, memory, return_adress) ==
    LET jmp_address == jmp(address_bytes, condition)
        return_adress_bytes == split_register_pair(return_adress)
        pushed == push(<<return_adress_bytes[2], return_adress_bytes[1]>>,
                       stack_pointer, memory)
    IN  [address |-> jmp_address, sp |-> pushed.sp, memory |-> pushed.memory]

call(address_bytes, condition, stack_pointer, memory, return_adress) ==
    LET jmp_address == jmp(address_bytes, condition)
        return_adress_bytes == split_register_pair(return_adress)
        pushed == push(<<return_adress_bytes[2], return_adress_bytes[1]>>,
                       stack_pointer, memory)
    IN  IF jmp_address # None
        THEN [address |-> jmp_address, sp |-> pushed.sp, memory |-> pushed.memory]
        ELSE [address |-> jmp_address, sp |-> stack_pointer, memory |-> memory]

call_faults(oc, condition, stack_pointer) ==
    condition_met(condition) /\ push_faults(oc, stack_pointer)

\* (variant used to test C35) a ret that takes the first byte popped as the high byte
ret_high_byte_first(condition, stack_pointer, memory) ==
    LET popped == pop(stack_pointer, memory)
    IN  IF condition_met(condition)
        THEN [address |-> Some(pair_registers(popped.bytes[1], popped.bytes[2])),
              sp |-> popped.sp, memory |-> popped.memory]
        ELSE [address |-> None, sp |-> stack_pointer, memory |-> memory]

ret(condition, stack_pointer, memory) ==
    LET popped == pop(stack_pointer, memory)
    IN  IF condition_met(condition)
        THEN [address |-> Some(pair_registers(popped.bytes[2], popped.bytes[1])),
              sp |-> popped.sp, memory |-> popped.memory]
        ELSE [address |-> None, sp |-> stack_pointer, memory |-> memory]

ret_faults(oc, condition, stack_pointer) ==
    condition_met(condition) /\ pop_faults(oc, stack_pointer)

---------------------------------------------------------------------------
(* Arithmetic.  Every operation returns [result, flags]; flags is          *)
(* FLAGS_ABORT when an assertion of set_flag / clear_flag failed on the way *)

count_ones(byte) ==
    Bit(byte, 0) + Bit(byte, 1) + Bit(byte, 2) + Bit(byte, 3)
  + Bit(byte, 4) + Bit(byte, 5) + Bit(byte, 6) + Bit(byte, 7)

\* value is the i16 intermediate: Z on zero, S on negative, P on an even
\* number of ones in its low byte, CY when it exceeds u8::MAX
set_flags_from_operation(value, flags) ==
    LET z == IF value = 0 THEN set_flag(flags, "Z") ELSE clear_flag(flags, "Z")
        s == IF value < 0 THEN set_flag(z, "S") ELSE clear_flag(z, "S")
        p == IF count_ones(Wrap8(value)) % 2 = 0
             THEN set_flag(s, "P") ELSE clear_flag(s, "P")
    IN  IF value > 255 THEN set_flag(p, "CY") ELSE clear_flag(p, "CY")

add(reg_1, reg_2, flags) ==
    LET value == reg_1 + reg_2
    IN  [result |-> Wrap8(value), flags |-> set_flags_from_operation(value, flags)]

adc(reg_1, reg_2, flags) ==
    LET carry == check_flag(flags, "CY")
        sum   == add(reg_1, reg_2, flags)
    IN  [result |-> Wrap8(sum.result + carry), flags |-> sum.flags]

sub(reg_1, reg_2, flags) ==
    LET value == reg_1 - reg_2
    IN  [result |-> Wrap8(value), flags |-> set_flags_from_operation(value, flags)]

sbb(reg_1, reg_2, flags) ==
    LET carry == check_flag(flags, "CY")
        diff  == sub(reg_1, reg_2, flags)
    IN  [result |-> Wrap8(diff.result - carry), flags |-> diff.flags]

\* an increment that keeps the Carry its addition produced
restore_carry_skipped(carry, flags) == flags

\* restores Carry to what it was before the add / sub
restore_carry(carry, flags) ==
    IF carry = 1 THEN set_flag(flags, "CY") ELSE clear_flag(flags, "CY")

inr(reg, flags) ==
    LET carry == check_flag(flags, "CY")
        sum   == add(reg, 1, flags)
    IN  [result |-> sum.result, flags |-> restore_carry(carry, sum.flags)]

dcr(reg, flags) ==
    LET carry == check_flag(flags, "CY")
        diff  == sub(reg, 1, flags)
    IN  [result |-> diff.result, flags |-> restore_carry(carry, diff.flags)]

inx(reg_pair) == split_register_pair(Wrap16(reg_pair + 1))

dcx(reg_pair) == split_register_pair(Wrap16(reg_pair - 1))

\* a dad that adds the pairs and leaves Carry as it was
dad_carry_kept(hl_pair, reg_pair, flags) ==
    [result |-> split_register_pair(Wrap16(hl_pair + reg_pair)), flags |-> flags]

dad(hl_pair, reg_pair, flags) ==
    LET value == hl_pair + reg_pair
    IN  [result |-> split_register_pair(Wrap16(value)),
         flags  |-> IF value > 65535 THEN set_flag(flags, "CY")
                                      ELSE clear_flag(flags, "CY")]

(* The operations below are used by the dispatcher but their code is not   *)
(* among the source files; they follow the design's description.           *)

\* the logical group: the common flag rule, and Sign forced when the result
\* is exactly 0b1000_0000
logic_flags(value, flags) ==
    LET f == set_flags_from_operation(value, flags)
    IN  IF value = 128 THEN set_flag(f, "S") ELSE f

and(reg_1, reg_2, flags) ==
    LET value == BitAnd(reg_1, reg_2)
    IN  [result |-> value, flags |-> logic_flags(value, flags)]

xor(reg_1, reg_2, flags) ==
    LET value == BitXor(reg_1, reg_2)
    IN  [result |-> value, flags |-> logic_flags(value, flags)]

or(reg_1, reg_2, flags) ==
    LET value == BitOr(reg_1, reg_2)
    IN  [result |-> value, flags |-> logic_flags(value, flags)]

\* a subtraction whose result is discarded; Carry is set when reg_1 < reg_2
cmp(reg_1, reg_2, flags) ==
    LET diff == sub(reg_1, reg_2, flags)
    IN  [result |-> reg_1,
         flags  |-> IF reg_1 < reg_2 THEN set_flag(diff.flags, "CY")
                                     ELSE clear_flag(diff.flags, "CY")]

\* the bit rotated out becomes Carry; the vacated bit is the rotated-out bit,
\* or the previous Carry in through-carry mode
rotate_left(reg, through_carry, flags) ==
    LET out == Bit(reg, 7)
        fill == IF through_carry THEN check_flag(flags, "CY") ELSE out
    IN  [result |-> Wrap8(reg * 2) + fill,
         flags  |-> IF out = 1 THEN set_flag(flags, "CY") ELSE clear_flag(flags, "CY")]

rotate_right(reg, through_carry, flags) ==
    LET out == Bit(reg, 0)
        fill == IF through_carry THEN check_flag(flags, "CY") ELSE out
    IN  [result |-> (reg \div 2) + fill * 128,
         flags  |-> IF out = 1 THEN set_flag(flags, "CY") ELSE clear_flag(flags, "CY")]

\* daa(reg, &mut flags) -> u8, called by the 0x27 arm.  No source file has
\* its body and the design says nothing of it, so nothing is assumed of it
\* beyond its signature: it returns some byte and leaves some flag byte, or
\* aborts; which, is a choice made for the whole run.
daa(reg, flags) == daa_outcome

\* outcomes of daa that are explored: an abort, and the two extreme bytes
DaaOutcomes ==
    { [result |-> 0, flags |-> FLAGS_ABORT],
      [result |-> 0, flags |-> 0],
      [result |-> 255, flags |-> 255] }

\* the outcome in runs whose programs hold no DAA: were one met, the run stops
DaaUnmet == [result |-> 0, flags |-> FLAGS_ABORT]

swap_registers(reg_1, reg_2) == <<reg_2, reg_1>>

---------------------------------------------------------------------------
(* Results of calls *)

NoResult   == [kind |-> "None",  val |-> <<>>]
Panicked   == [kind |-> "Panic", val |-> <<>>]
Unit       == [kind |-> "Unit",  val |-> <<>>]
Returns(v) == [kind |-> "Value", val |-> v]
Ok(n)      == [kind |-> "Ok",    val |-> <<n>>]
Err(op)    == [kind |-> "Err",   val |-> <<op>>]

NoCallBefore ==
    [fn |-> "none", arg |-> <<>>, pre |-> Cpu_init, result |-> NoResult]

NoCall ==
    [fn |-> "none", arg |-> <<>>, pre |-> Cpu_init, result |-> NoResult,
     before |-> NoCallBefore]

\* main before its first iteration: let mut frame_cycles: u64 = 0
Frame_init == [frame_cycles |-> 0, at |-> "first_loop"]

\* nothing requested, nothing outstanding
Trace_init ==
    [requests |-> <<>>, updates |-> 0, since |-> 0, frames |-> 0,
     outstanding |-> <<>>, due |-> <<>>]

\* the bookkeeping every call shares: the log moves on, the build stays
Recorded(name, args) ==
    /\ result.kind # "Panic"
    /\ fn' = name
    /\ arg' = args
    /\ pre' = cpu
    /\ pre_hardware' = hardware
    /\ prev' = [fn |-> fn, arg |-> arg, pre |-> pre, result |-> result,
                before |-> [fn |-> prev.fn, arg |-> prev.arg, pre |-> prev.pre,
                            result |-> prev.result]]
    /\ steps' = steps + 1
    /\ UNCHANGED <<overflow_checks, daa_outcome>>

\* a call made outside the run loop of main
Logged(name, args) == Recorded(name, args) /\ UNCHANGED <<frame, trace>>

---------------------------------------------------------------------------
(* The dispatcher.  Each arm of the match returns the Cpu it leaves and    *)
(* the Result; the arms are named by mnemonic.  An opcode byte is split    *)
(* as xx yyy zzz, with yyy = rp q for the register-pair instructions.      *)

Done(st, additional_bytes) == [cpu |-> st, result |-> Ok(additional_bytes)]

HL(st) == pair_registers(st.h, st.l)

\* register operands in opcode order B C D E H L M A; 6 is the cell at HL
RegName(i) ==
    CASE i = 0 -> "b" [] i = 1 -> "c" [] i = 2 -> "d" [] i = 3 -> "e"
      [] i = 4 -> "h" [] i = 5 -> "l" [] i = 7 -> "a"

operand(st, i) == IF i = 6 THEN read_at(st.memory, HL(st)) ELSE st[RegName(i)]

store(st, i, byte) ==
    IF i = 6 THEN [st EXCEPT !.memory = write_at(st.memory, HL(st), byte)]
             ELSE [st EXCEPT ![RegName(i)] = byte]

operand_faults(st, i) == i = 6 /\ ~InBounds(HL(st))

\* register pairs in opcode order B D H SP
pair_of(st, rp) ==
    CASE rp = 0 -> pair_registers(st.b, st.c)
      [] rp = 1 -> pair_registers(st.d, st.e)
      [] rp = 2 -> pair_registers(st.h, st.l)
      [] rp = 3 -> st.sp

store_pair(st, rp, bytes) ==
    CASE rp = 0 -> [st EXCEPT !.b = bytes[1], !.c = bytes[2]]
      [] rp = 1 -> [st EXCEPT !.d = bytes[1], !.e = bytes[2]]
      [] rp = 2 -> [st EXCEPT !.h = bytes[1], !.l = bytes[2]]
      [] rp = 3 -> [st EXCEPT !.sp = pair_registers(bytes[1], bytes[2])]

\* memory.read_at(pc)
immediate(st) == read_at(st.memory, st.pc)

immediate_faults(st) == ~InBounds(st.pc)

\* (memory.read_at(pc), memory.read_at(pc + 1))
operand_bytes(st) ==
    <<read_at(st.memory, st.pc), read_at(st.memory, Wrap16(st.pc + 1))>>

operand_bytes_fault(oc, st) == ~InBounds(st.pc) \/ AccessFaults(oc, st.pc + 1)

\* the address an instruction carries: pair_registers(read_at(pc + 1), read_at(pc))
operand_address(st) == pair_registers(operand_bytes(st)[2], operand_bytes(st)[1])

NOP(st) == Done(st, 0)

\* the arms written `{}`
RESERVED == {8, 16, 24, 32, 40, 48, 56, 203, 217, 221, 237, 253}

\* (variant used to test C8) reserved opcodes that step over a byte
reserved_skips(st) == Done([st EXCEPT !.pc = Wrap16(st.pc + 1)], 0)

reserved(st) == Done(st, 0)

LXI(st, rp) == Done(store_pair(st, rp, <<operand_bytes(st)[2], operand_bytes(st)[1]>>), 2)

STAX(st, rp) ==
    Done([st EXCEPT !.memory = write_at(st.memory, pair_of(st, rp), st.a)], 0)

LDAX(st, rp) == Done([st EXCEPT !.a = read_at(st.memory, pair_of(st, rp))], 0)

\* (variant used to test C24) an SHLD that stores H at the address and L above it
SHLD_high_first(st) ==
    LET addr == operand_address(st)
    IN  Done([st EXCEPT !.memory =
                 write_at(write_at(st.memory, addr, st.h), Wrap16(addr + 1), st.l)], 2)

SHLD(st) ==
    LET addr == operand_address(st)
    IN  Done([st EXCEPT !.memory =
                 write_at(write_at(st.memory, addr, st.l), Wrap16(addr + 1), st.h)], 2)

LHLD(st) ==
    LET addr == operand_address(st)
    IN  Done([st EXCEPT !.l = read_at(st.memory, addr),
                        !.h = read_at(st.memory, Wrap16(addr + 1))], 2)

STA(st) ==
    Done([st EXCEPT !.memory = write_at(st.memory, operand_address(st), st.a)], 2)

LDA(st) == Done([st EXCEPT !.a = read_at(st.memory, operand_address(st))], 2)

\* INX D reading the low byte of BC, as the arm 0x13 of the older dispatcher
INX_low_of_neighbour(st, rp) ==
    Done(store_pair(st, rp, inx(IF rp = 1 THEN pair_registers(st.d, st.c)
                                          ELSE pair_of(st, rp))), 0)

INX(st, rp) == Done(store_pair(st, rp, inx(pair_of(st, rp))), 0)

DCX(st, rp) == Done(store_pair(st, rp, dcx(pair_of(st, rp))), 0)

INR(st, i) ==
    LET r == inr(operand(st, i), st.flags)
    IN  Done([store(st, i, r.result) EXCEPT !.flags = r.flags], 0)

DCR(st, i) ==
    LET r == dcr(operand(st, i), st.flags)
    IN  Done([store(st, i, r.result) EXCEPT !.flags = r.flags], 0)

\* (variant used to test C29) an MVI that does not report its operand byte
MVI_unreported(st, i) == Done(store(st, i, immediate(st)), 0)

MVI(st, i) == Done(store(st, i, immediate(st)), 1)

DAD(st, rp) ==
    LET r == dad(HL(st), pair_of(st, rp), st.flags)
    IN  Done([st EXCEPT !.h = r.result[1], !.l = r.result[2], !.flags = r.flags], 0)

\* RLC RRC RAL RAR
\* rotates whose two modes are exchanged: RLC through Carry, RAL around it
ROT_modes_exchanged(st, left, through_carry) ==
    LET r == IF left THEN rotate_left(st.a, ~through_carry, st.flags)
                     ELSE rotate_right(st.a, ~through_carry, st.flags)
    IN  Done([st EXCEPT !.a = r.result, !.flags = r.flags], 0)

ROT(st, left, through_carry) ==
    LET r == IF left THEN rotate_left(st.a, through_carry, st.flags)
                     ELSE rotate_right(st.a, through_carry, st.flags)
    IN  Done([st EXCEPT !.a = r.result, !.flags = r.flags], 0)

DAA(st) ==
    LET r == daa(st.a, st.flags)
    IN  Done([st EXCEPT !.a = r.result, !.flags = r.flags], 0)

CMA(st) == Done([st EXCEPT !.a = 255 - st.a], 0)

STC(st) == Done([st EXCEPT !.flags = set_flag(st.flags, "CY")], 0)

\* the arm clears Carry
CMC(st) == Done([st EXCEPT !.flags = clear_flag(st.flags, "CY")], 0)

MOV(st, dst, src) == Done(store(st, dst, operand(st, src)), 0)

\* (variant used to test C9) a HLT that reports no additional bytes
HLT_silent(st) == Done(st, 0)

HLT(st) == Done(st, 255)

\* ADD ADC SUB SBB ANA XRA ORA CMP, in opcode order
alu(operation, reg_1, reg_2, flags) ==
    CASE operation = 0 -> add(reg_1, reg_2, flags)
      [] operation = 1 -> adc(reg_1, reg_2, flags)
      [] operation = 2 -> sub(reg_1, reg_2, flags)
      [] operation = 3 -> sbb(reg_1, reg_2, flags)
      [] operation = 4 -> and(reg_1, reg_2, flags)
      [] operation = 5 -> xor(reg_1, reg_2, flags)
      [] operation = 6 -> or(reg_1, reg_2, flags)
      [] operation = 7 -> cmp(reg_1, reg_2, flags)

\* a compare that subtracts: the difference is kept in the accumulator
ALU_compare_subtracts(st, operation, src) ==
    LET r == alu(IF operation = 7 THEN 2 ELSE operation,
                 st.a, operand(st, src), st.flags)
    IN  Done([st EXCEPT !.a = r.result, !.flags = r.flags], 0)

ALU(st, operation, src) ==
    LET r == alu(operation, st.a, operand(st, src), st.flags)
    IN  Done([st EXCEPT !.a = r.result, !.flags = r.flags], 0)

\* an immediate operation that sets the flags and drops the result
ALU_IMMEDIATE_flags_only(st, operation) ==
    LET r == alu(operation, st.a, immediate(st), st.flags)
    IN  Done([st EXCEPT !.flags = r.flags], 1)

\* ADI ACI SUI SBI ANI XRI ORI CPI
ALU_IMMEDIATE(st, operation) ==
    LET r == alu(operation, st.a, immediate(st), st.flags)
    IN  Done([st EXCEPT !.a = r.result, !.flags = r.flags], 1)

\* (variant used to test C34) the Parity rows testing Sign and the Sign rows Parity
condition_of_rows_exchanged(flags, ccc) ==
    CASE ccc = 0 -> Some(check_flag(flags, "Z") = 0)
      [] ccc = 1 -> Some(check_flag(flags, "Z") = 1)
      [] ccc = 2 -> Some(check_flag(flags, "CY") = 0)
      [] ccc = 3 -> Some(check_flag(flags, "CY") = 1)
      [] ccc = 4 -> Some(check_flag(flags, "S") = 0)
      [] ccc = 5 -> Some(check_flag(flags, "S") = 1)
      [] ccc = 6 -> Some(check_flag(flags, "P") = 0)
      [] ccc = 7 -> Some(check_flag(flags, "P") = 1)

\* the condition of Jcc / Ccc / Rcc, in opcode order NZ Z NC C PO PE P M
condition_of(flags, ccc) ==
    CASE ccc = 0 -> Some(check_flag(flags, "Z") = 0)
      [] ccc = 1 -> Some(check_flag(flags, "Z") = 1)
      [] ccc = 2 -> Some(check_flag(flags, "CY") = 0)
      [] ccc = 3 -> Some(check_flag(flags, "CY") = 1)
      [] ccc = 4 -> Some(check_flag(flags, "P") = 0)
      [] ccc = 5 -> Some(check_flag(flags, "P") = 1)
      [] ccc = 6 -> Some(check_flag(flags, "S") = 0)
      [] ccc = 7 -> Some(check_flag(flags, "S") = 1)

\* JMP (condition None) and Jcc
JMP(st, condition) ==
    LET jmp_address == jmp(operand_bytes(st), condition)
    IN  IF jmp_address # None
        THEN Done([st EXCEPT !.pc = jmp_address[1]], 0)
        ELSE Done(st, 2)

\* (variant used to test C2) a CALL whose return address is pc, as RST's is
CALL_returns_to_operands(st, condition) ==
    LET out == call(operand_bytes(st), condition, st.sp, st.memory, st.pc)
        after == [st EXCEPT !.sp = out.sp, !.memory = out.memory]
    IN  IF out.address # None
        THEN Done([after EXCEPT !.pc = out.address[1]], 0)
        ELSE Done(after, 2)

\* CALL (condition None) and Ccc; the return address is pc + 2; call and ret
\* work on sp and memory in place, whatever they return
CALL(st, condition) ==
    LET out == call(operand_bytes(st), condition, st.sp, st.memory, Wrap16(st.pc + 2))
        after == [st EXCEPT !.sp = out.sp, !.memory = out.memory]
    IN  IF out.address # None
        THEN Done([after EXCEPT !.pc = out.address[1]], 0)
        ELSE Done(after, 2)

\* RET (condition None) and Rcc
RET(st, condition) ==
    LET out == ret(condition, st.sp, st.memory)
        after == [st EXCEPT !.sp = out.sp, !.memory = out.memory]
    IN  IF out.address # None
        THEN Done([after EXCEPT !.pc = out.address[1]], 0)
        ELSE Done(after, 0)

\* (variant used to test C33) a restart that returns past two operand bytes, as CALL does
RST_returns_past_operands(st, n) ==
    LET out == call(<<8 * n, 0>>, None, st.sp, st.memory, Wrap16(st.pc + 2))
    IN  Done([st EXCEPT !.pc = out.address[1], !.sp = out.sp,
                        !.memory = out.memory], 0)

\* (variant used to test C21) a restart whose vector is n rather than 8 * n
RST_vector_unscaled(st, n) ==
    LET out == call(<<n, 0>>, None, st.sp, st.memory, st.pc)
    IN  Done([st EXCEPT !.pc = out.address[1], !.sp = out.sp,
                        !.memory = out.memory], 0)

\* RST n: a call to 8 * n whose return address is pc
RST(st, n) ==
    LET out == call(<<8 * n, 0>>, None, st.sp, st.memory, st.pc)
    IN  Done([st EXCEPT !.pc = out.address[1], !.sp = out.sp,
                        !.memory = out.memory], 0)

\* (variant used to test C23) a POP PSW that takes the flags from the cell of
\* the accumulator and the accumulator from the cell of the flags
POP_psw_exchanged(st, rp) ==
    LET out  == pop(st.sp, st.memory)
        mid  == [st EXCEPT !.sp = out.sp, !.memory = out.memory]
    IN  IF rp = 3
        THEN Done([mid EXCEPT !.a = out.bytes[2], !.flags = out.bytes[1]], 0)
        ELSE Done(store_pair(mid, rp, out.bytes), 0)

\* POP B / D / H, and POP PSW (rp = 3) which assigns the flags byte as popped
POP(st, rp) ==
    LET out  == pop(st.sp, st.memory)
        mid  == [st EXCEPT !.sp = out.sp, !.memory = out.memory]
    IN  IF rp = 3
        THEN Done([mid EXCEPT !.a = out.bytes[1], !.flags = out.bytes[2]], 0)
        ELSE Done(store_pair(mid, rp, out.bytes), 0)

\* PUSH B / D / H, and PUSH PSW (rp = 3)
PUSH(st, rp) ==
    LET data_bytes == CASE rp = 0 -> <<st.b, st.c>>
                        [] rp = 1 -> <<st.d, st.e>>
                        [] rp = 2 -> <<st.h, st.l>>
                        [] rp = 3 -> <<st.a, st.flags>>
        out == push(data_bytes, st.sp, st.memory)
    IN  Done([st EXCEPT !.sp = out.sp, !.memory = out.memory], 0)

XTHL(st) ==
    LET popped == pop(st.sp, st.memory)
        pushed == push(<<st.h, st.l>>, popped.sp, popped.memory)
    IN  Done([st EXCEPT !.h = popped.bytes[1], !.l = popped.bytes[2],
                        !.sp = pushed.sp, !.memory = pushed.memory], 0)

XCHG(st) ==
    LET hd == swap_registers(st.h, st.d)
        le == swap_registers(st.l, st.e)
    IN  Done([st EXCEPT !.h = hd[1], !.d = hd[2], !.l = le[1], !.e = le[2]], 0)

PCHL(st) == Done([st EXCEPT !.pc = pair_registers(st.h, st.l)], 0)

SPHL(st) == Done([st EXCEPT !.sp = pair_registers(st.h, st.l)], 0)

\* (variant used to test C22) a DI that enables interrupts
DI_enables(st) == Done([st EXCEPT !.interrupt_enabled = TRUE], 0)

DI(st) == Done([st EXCEPT !.interrupt_enabled = FALSE], 0)

EI(st) == Done([st EXCEPT !.interrupt_enabled = TRUE], 0)

\* the match: which arm an opcode byte selects
match_arm(op_code, st) ==
    LET x  == op_code \div 64
        y  == (op_code \div 8) % 8
        z  == op_code % 8
        rp == y \div 2
        q  == y % 2
    IN  IF op_code \in RESERVED THEN reserved(st)
        ELSE IF x = 0 THEN
            CASE z = 0 -> NOP(st)
              [] z = 1 -> IF q = 0 THEN LXI(st, rp) ELSE DAD(st, rp)
              [] z = 2 -> (CASE q = 0 /\ rp < 2 -> STAX(st, rp)
                             [] q = 0 /\ rp = 2 -> SHLD(st)
                             [] q = 0 /\ rp = 3 -> STA(st)
                             [] q = 1 /\ rp < 2 -> LDAX(st, rp)
                             [] q = 1 /\ rp = 2 -> LHLD(st)
                             [] q = 1 /\ rp = 3 -> LDA(st))
              [] z = 3 -> IF q = 0 THEN INX(st, rp) ELSE DCX(st, rp)
              [] z = 4 -> INR(st, y)
              [] z = 5 -> DCR(st, y)
              [] z = 6 -> MVI(st, y)
              [] z = 7 -> (CASE y < 4 -> ROT(st, q = 0, rp = 1)
                             [] y = 4 -> DAA(st)
                             [] y = 5 -> CMA(st)
                             [] y = 6 -> STC(st)
                             [] y = 7 -> CMC(st))
        ELSE IF x = 1 THEN (IF op_code = 118 THEN HLT(st) ELSE MOV(st, y, z))
        ELSE IF x = 2 THEN ALU(st, y, z)
        ELSE
            CASE z = 0 -> RET(st, condition_of(st.flags, y))
              [] z = 1 -> (CASE q = 0 -> POP(st, rp)
                             [] q = 1 /\ rp = 0 -> RET(st, None)
                             [] q = 1 /\ rp = 2 -> PCHL(st)
                             [] q = 1 /\ rp = 3 -> SPHL(st))
              [] z = 2 -> JMP(st, condition_of(st.flags, y))
              [] z = 3 -> (CASE y = 0 -> JMP(st, None)
                             [] y = 4 -> XTHL(st)
                             [] y = 5 -> XCHG(st)
                             [] y = 6 -> DI(st)
                             [] y = 7 -> EI(st))
              [] z = 4 -> CALL(st, condition_of(st.flags, y))
              [] z = 5 -> IF q = 0 THEN PUSH(st, rp) ELSE CALL(st, None)
              [] z = 6 -> ALU_IMMEDIATE(st, y)
              [] z = 7 -> RST(st, y)

\* the opcodes whose arm is panic!(..): OUT and IN
PANIC_ARMS == {211, 219}

\* whether the arm aborts: a panic!, a memory index out of bounds, or an
\* address computation that overflows in a build with overflow checks
arm_aborts(oc, op_code, st) ==
    LET x  == op_code \div 64
        y  == (op_code \div 8) % 8
        z  == op_code % 8
        rp == y \div 2
        q  == y % 2
        addr == operand_address(st)
    IN  IF op_code \in RESERVED THEN FALSE
        ELSE IF op_code \in PANIC_ARMS THEN TRUE
        ELSE IF x = 0 THEN
            CASE z = 1 -> q = 0 /\ operand_bytes_fault(oc, st)
              [] z = 2 -> (CASE rp < 2 -> ~InBounds(pair_of(st, rp))
                             [] rp = 2 -> \/ operand_bytes_fault(oc, st)
                                          \/ ~InBounds(addr)
                                          \/ AccessFaults(oc, addr + 1)
                             [] rp = 3 -> \/ operand_bytes_fault(oc, st)
                                          \/ ~InBounds(addr))
              [] z \in {4, 5} -> operand_faults(st, y)
              [] z = 6 -> immediate_faults(st) \/ operand_faults(st, y)
              [] z \in {0, 3, 7} -> FALSE
        ELSE IF x = 1 THEN
            op_code # 118 /\ (operand_faults(st, y) \/ operand_faults(st, z))
        ELSE IF x = 2 THEN operand_faults(st, z)
        ELSE
            CASE z = 0 -> ret_faults(oc, condition_of(st.flags, y), st.sp)
              [] z = 1 -> (CASE q = 0 -> pop_faults(oc, st.sp)
                             [] q = 1 /\ rp = 0 -> ret_faults(oc, None, st.sp)
                             [] q = 1 /\ rp > 0 -> FALSE)
              [] z = 2 -> operand_bytes_fault(oc, st)
              [] z = 3 -> (CASE y = 0 -> operand_bytes_fault(oc, st)
                             [] y = 4 -> \/ pop_faults(oc, st.sp)
                                         \/ push_faults(oc, Wrap16(st.sp + 2))
                             [] y \in {5, 6, 7} -> FALSE)
              [] z = 4 -> \/ operand_bytes_fault(oc, st)
                          \/ Overflows(oc, st.pc + 2)
                          \/ call_faults(oc, condition_of(st.flags, y), st.sp)
              [] z = 5 -> IF q = 0 THEN push_faults(oc, st.sp)
                          ELSE \/ operand_bytes_fault(oc, st)
                               \/ Overflows(oc, st.pc + 2)
                               \/ call_faults(oc, None, st.sp)
              [] z = 6 -> immediate_faults(st)
              [] z = 7 -> call_faults(oc, None, st.sp)

\* handle_op_code(op_code, &mut cpu) -> Result<u16, &str>, in a build with
\* (oc) or without overflow checks.  An aborted call leaves no result; the
\* model keeps the Cpu of the call's start beside it.
handle_op_code(oc, op_code, st) ==
    IF arm_aborts(oc, op_code, st)
    THEN [cpu |-> st, result |-> Panicked]
    ELSE CHOOSE r \in { IF out.cpu.flags = FLAGS_ABORT
                         THEN [cpu |-> st, result |-> Panicked]
                         ELSE out : out \in {match_arm(op_code, st)} } : TRUE

\* generate_interrupt(op_code, &mut cpu): the opcode goes through the
\* dispatcher when interrupts are enabled and its result is dropped; nothing
\* happens otherwise.  (The function is not among the source files; it
\* follows the design's description.)
generate_interrupt(oc, op_code, st) ==
    IF st.interrupt_enabled
    THEN [handle_op_code(oc, op_code, st)
             EXCEPT !.result = IF @ = Panicked THEN Panicked ELSE Unit]
    ELSE [cpu |-> st, result |-> Unit]

---------------------------------------------------------------------------
(* The hardware outside the Cpu: eight ports and the 16-bit shift register *)

PortNames ==
    {"INP1", "INP2", "SHFTIN", "SHFTAMNT", "SOUND1", "SHFTDATA", "SOUND2",
     "WATCHDOG"}

Ports_new ==
    [input_1 |-> 0, input_2 |-> 0, shift_result |-> 0, shift_amount |-> 0,
     sound_1 |-> 0, shift_data |-> 0, sound_2 |-> 0, watchdog |-> 0]

Hardware_init == [shift_register |-> 0, ports |-> Ports_new]

\* Hardware::reset(&mut self): *self = Hardware::default()
Hardware_reset(hw) == Hardware_init

WRITE_PORTS == {"SHFTAMNT", "SOUND1", "SHFTDATA", "SOUND2", "WATCHDOG"}
READ_PORTS  == {"INP1", "INP2", "SHFTIN"}

\* a write to the shift-data port that puts the new byte under the old low byte
write_port_shifts_left(write_value, port, hw) ==
    CASE port = "SHFTAMNT" -> [hw EXCEPT !.ports.shift_amount = write_value]
      [] port = "SOUND1"   -> [hw EXCEPT !.ports.sound_1 = write_value]
      [] port = "SHFTDATA" ->
            [hw EXCEPT !.shift_register =
                BitOr16(Wrap16(hw.shift_register * 256), write_value)]
      [] port = "SOUND2"   -> [hw EXCEPT !.ports.sound_2 = write_value]
      [] port = "WATCHDOG" -> [hw EXCEPT !.ports.watchdog = write_value]
      [] OTHER             -> hw

\* the Hardware a write leaves; a write to a port outside WRITE_PORTS aborts
write_port(write_value, port, hw) ==
    CASE port = "SHFTAMNT" -> [hw EXCEPT !.ports.shift_amount = write_value]
      [] port = "SOUND1"   -> [hw EXCEPT !.ports.sound_1 = write_value]
      [] port = "SHFTDATA" ->
            [hw EXCEPT !.shift_register =
                BitOr16(Wrap16(write_value * 256), hw.shift_register \div 256)]
      [] port = "SOUND2"   -> [hw EXCEPT !.ports.sound_2 = write_value]
      [] port = "WATCHDOG" -> [hw EXCEPT !.ports.watchdog = write_value]
      [] OTHER             -> hw

write_port_aborts(port) == port \notin WRITE_PORTS

\* the byte a read returns; a read of a port outside READ_PORTS aborts
read_port(port, hw) ==
    CASE port = "INP1"   -> hw.ports.input_1
      [] port = "INP2"   -> hw.ports.input_2
      [] port = "SHFTIN" ->
            LET left_offset  == hw.ports.shift_amount \div 32
                right_offset == 8 - left_offset
            IN  Wrap8(hw.shift_register \div (2 ^ right_offset))
      [] OTHER           -> 0

read_port_aborts(port) == port \notin READ_PORTS

\* the port an OUT names; NoPort where the match arm is a panic!
out_port(port_byte) ==
    CASE port_byte = 2 -> "SHFTAMNT"
      [] port_byte = 3 -> "SOUND1"
      [] port_byte = 4 -> "SHFTDATA"
      [] port_byte = 5 -> "SOUND2"
      [] port_byte = 6 -> "WATCHDOG"
      [] OTHER         -> "NoPort"

\* an IN whose two input ports are exchanged
in_port_exchanged(port_byte) ==
    CASE port_byte = 1 -> "INP2"
      [] port_byte = 2 -> "INP1"
      [] port_byte = 3 -> "SHFTIN"
      [] OTHER         -> "NoPort"

\* the port an IN names; NoPort where the match arm is a panic!
in_port(port_byte) ==
    CASE port_byte = 1 -> "INP1"
      [] port_byte = 2 -> "INP2"
      [] port_byte = 3 -> "SHFTIN"
      [] OTHER         -> "NoPort"

OUT == 211
IN_ == 219

handle_io_aborts(op_code, port_byte) ==
    CASE op_code = OUT -> write_port_aborts(out_port(port_byte))
      [] op_code = IN_ -> read_port_aborts(in_port(port_byte))
      [] OTHER         -> TRUE

\* the Hardware the call leaves and the Option<u8> it returns
handle_io(op_code, hw, port_byte, reg_a) ==
    CASE handle_io_aborts(op_code, port_byte) ->
            [hardware |-> hw, result |-> Panicked]
      [] op_code = OUT ->
            [hardware |-> write_port(reg_a, out_port(port_byte), hw),
             result   |-> Returns(None)]
      [] op_code = IN_ ->
            [hardware |-> hw,
             result   |-> Returns(Some(read_port(in_port(port_byte), hw)))]

---------------------------------------------------------------------------
(* Unit-level use of the stack primitives, as test_push_pop makes it       *)

StackPointers == {0, 1, 2, 3, 9216, 65532, 65533, 65534, 65535}
StackBytes    == {<<212, 195>>, <<0, 0>>, <<255, 1>>, <<0, 7>>}

InitStack ==
    /\ \E s \in StackPointers : cpu = [Cpu_init EXCEPT !.sp = s]
    /\ overflow_checks \in BOOLEAN
    /\ daa_outcome = DaaUnmet
    /\ hardware = Hardware_init /\ pre_hardware = Hardware_init
    /\ fn = "none" /\ arg = <<>> /\ pre = Cpu_init /\ result = NoResult
    /\ prev = NoCall
    /\ steps = 0
    /\ frame = Frame_init /\ trace = Trace_init

PushCall(data_bytes) ==
    /\ steps < MaxCalls
    /\ Logged("push", data_bytes)
    /\ UNCHANGED hardware
    /\ IF push_faults(overflow_checks, cpu.sp)
       THEN cpu' = cpu /\ result' = Panicked
       ELSE LET out == push(data_bytes, cpu.sp, cpu.memory)
            IN  /\ cpu' = [cpu EXCEPT !.sp = out.sp, !.memory = out.memory]
                /\ result' = Unit

PopCall ==
    /\ steps < MaxCalls
    /\ Logged("pop", <<>>)
    /\ UNCHANGED hardware
    /\ IF pop_faults(overflow_checks, cpu.sp)
       THEN cpu' = cpu /\ result' = Panicked
       ELSE LET out == pop(cpu.sp, cpu.memory)
            IN  /\ cpu' = [cpu EXCEPT !.sp = out.sp, !.memory = out.memory]
                /\ result' = Returns(out.bytes)

PushStep == \E data_bytes \in StackBytes : PushCall(data_bytes)

NextStack == PushStep \/ PopCall

SpecStack == InitStack /\ [][NextStack]_vars

---------------------------------------------------------------------------
(* Unit-level use of Memory, as test_memory_rw makes it                    *)

\* the cells of memory reserved for a rom: assert!(address < 0x2000)
ROM_SPACE == 8192

\* Memory::load_rom(&mut self, file_path).  file is what fs::read gives: ok
\* and the bytes of the file, or not ok.  The loop writes byte after byte
\* from address 0 with write_at and aborts at the first address outside the
\* rom space, the bytes before it written; an unreadable file aborts before
\* anything is written.
load_rom(memory, file) ==
    IF ~file.ok
    THEN [memory |-> memory, result |-> Panicked]
    ELSE CHOOSE r \in
           { [memory |->
                 [x \in ((DOMAIN memory) \ (0..(written - 1)))
                          \cup {a \in 0..(written - 1) : file.bytes[a + 1] # 0}
                    |-> IF x < written THEN file.bytes[x + 1] ELSE memory[x]],
              result |-> IF Len(file.bytes) > ROM_SPACE
                         THEN Panicked
                         ELSE Unit]
             : written \in {IF Len(file.bytes) > ROM_SPACE
                            THEN ROM_SPACE ELSE Len(file.bytes)} } : TRUE

Addresses == {0, 8192, 9216, 16384, 65534, 65535}
DataBytes == {0, 1, 255}

InitMemory ==
    /\ cpu = Cpu_init
    /\ overflow_checks \in BOOLEAN
    /\ daa_outcome = DaaUnmet
    /\ hardware = Hardware_init /\ pre_hardware = Hardware_init
    /\ fn = "none" /\ arg = <<>> /\ pre = Cpu_init /\ result = NoResult
    /\ prev = NoCall
    /\ steps = 0
    /\ frame = Frame_init /\ trace = Trace_init

ReadCall(addr) ==
    /\ steps < MaxMemCalls
    /\ Logged("read_at", <<addr>>)
    /\ UNCHANGED hardware
    /\ cpu' = cpu
    /\ IF InBounds(addr)
       THEN result' = Returns(<<read_at(cpu.memory, addr)>>)
       ELSE result' = Panicked

WriteCall(addr, byte) ==
    /\ steps < MaxMemCalls
    /\ Logged("write_at", <<addr, byte>>)
    /\ UNCHANGED hardware
    /\ IF InBounds(addr)
       THEN cpu' = [cpu EXCEPT !.memory = write_at(cpu.memory, addr, byte)]
            /\ result' = Unit
       ELSE cpu' = cpu /\ result' = Panicked

\* roms of two, seven and three bytes, one that fills the rom space, one
\* that is a byte too long, an empty one and a file that cannot be read
RomFiles ==
    { [ok |-> TRUE, bytes |-> <<255, 255>>],
      [ok |-> TRUE, bytes |-> <<5, 0, 0, 0, 0, 212, 195>>],
      [ok |-> TRUE, bytes |-> <<0, 0, 0>>],
      [ok |-> TRUE, bytes |-> [i \in 1..ROM_SPACE |-> IF i = ROM_SPACE THEN 1 ELSE 0]],
      [ok |-> TRUE, bytes |-> [i \in 1..(ROM_SPACE + 1) |-> IF i >= ROM_SPACE THEN 1 ELSE 0]],
      [ok |-> TRUE, bytes |-> <<>>],
      [ok |-> FALSE, bytes |-> <<>>] }

LoadRomCall(file) ==
    /\ steps < MaxMemCalls
    /\ Logged("load_rom", <<file>>)
    /\ UNCHANGED hardware
    /\ \E out \in {load_rom(cpu.memory, file)} :
          /\ cpu' = [cpu EXCEPT !.memory = out.memory]
          /\ result' = out.result

ReadStep  == \E addr \in Addresses : ReadCall(addr)
WriteStep == \E addr \in Addresses, byte \in DataBytes : WriteCall(addr, byte)

LoadStep  == \E file \in RomFiles : LoadRomCall(file)

NextMemory == ReadStep \/ WriteStep \/ LoadStep

SpecMemory == InitMemory /\ [][NextMemory]_vars

---------------------------------------------------------------------------
(* One call of handle_op_code on a Cpu drawn from samples, for every       *)
(* opcode byte, as test_operation_handling makes it                        *)

SampleRegisters ==
    { [a |-> 15,  b |-> 1,   c |-> 2,   d |-> 3, e |-> 4, h |-> 32,  l |-> 16],
      [a |-> 255, b |-> 0,   c |-> 0,   d |-> 255, e |-> 255, h |-> 255, l |-> 255],
      [a |-> 128, b |-> 128, c |-> 255, d |-> 0, e |-> 1, h |-> 35,  l |-> 255] }

\* no flag, all five flags, Z and P, S and CY
SampleFlags == {0, 213, 68, 129}

SamplePc == {5, 65534, 65535}

SampleSp == {9216, 1, 65534}

\* operands 0xc3d4 at 0x0005, a return address 0x0007 above 0x2400, a cell at HL
SampleMemory ==
    write_at(write_at(write_at(write_at(Memory_init, 5, 212), 6, 195),
                      9217, 7), 8208, 85)

Init ==
    /\ \E r \in SampleRegisters, f \in SampleFlags, p \in SamplePc,
          s \in SampleSp, ie \in BOOLEAN :
          cpu = [a |-> r.a, b |-> r.b, c |-> r.c, d |-> r.d, e |-> r.e,
                 h |-> r.h, l |-> r.l, sp |-> s, pc |-> p,
                 memory |-> SampleMemory, flags |-> f, interrupt_enabled |-> ie]
    /\ overflow_checks \in BOOLEAN
    /\ daa_outcome \in DaaOutcomes
    /\ hardware = Hardware_init /\ pre_hardware = Hardware_init
    /\ fn = "none" /\ arg = <<>> /\ pre = Cpu_init /\ result = NoResult
    /\ prev = NoCall
    /\ steps = 0
    /\ frame = Frame_init /\ trace = Trace_init

HandleCall(op_code) ==
    /\ Logged("handle_op_code", <<op_code>>)
    /\ UNCHANGED hardware
    /\ \E out \in {handle_op_code(overflow_checks, op_code, cpu)} :
          cpu' = out.cpu /\ result' = out.result

Dispatch == fn = "none" /\ \E op_code \in 0..255 : HandleCall(op_code)

Next == Dispatch

Spec == Init /\ [][Next]_vars

---------------------------------------------------------------------------
(* Sequences of handle_op_code calls on a Cpu that starts as Cpu::init()   *)
(* with a program image in memory                                          *)

\* CALL 0x0005 at 0x0000 and operands 0xc3d4 at 0x0005; an empty image;
\* operands 0xffff at 0x0000
RunImages ==
    { write_at(write_at(write_at(Memory_init, 0, 5), 5, 212), 6, 195),
      Memory_init,
      write_at(write_at(Memory_init, 0, 255), 1, 255) }

\* NOP, DCR C, MVI C, STC, INR A, JMP, CNZ, PUSH B, RZ, RET, CALL, POP PSW, PUSH PSW
RunOpcodes == {0, 13, 14, 55, 60, 195, 196, 197, 200, 201, 205, 241, 245}

InitRun ==
    /\ \E image \in RunImages : cpu = [Cpu_init EXCEPT !.memory = image]
    /\ overflow_checks \in BOOLEAN
    /\ daa_outcome = DaaUnmet
    /\ hardware = Hardware_init /\ pre_hardware = Hardware_init
    /\ fn = "none" /\ arg = <<>> /\ pre = Cpu_init /\ result = NoResult
    /\ prev = NoCall
    /\ steps = 0
    /\ frame = Frame_init /\ trace = Trace_init

RunStep == steps < MaxSteps /\ \E op_code \in RunOpcodes : HandleCall(op_code)

\* cpu.reset() between the calls, as the tests do
ResetCall ==
    /\ Logged("Cpu::reset", <<>>)
    /\ UNCHANGED hardware
    /\ cpu' = Cpu_reset(cpu)
    /\ result' = Unit

ResetStep == steps < MaxSteps /\ ResetCall

NextRun == RunStep \/ ResetStep

SpecRun == InitRun /\ [][NextRun]_vars

---------------------------------------------------------------------------
(* Unit-level use of the 8-bit arithmetic primitives, as                   *)
(* test_arithmetic_operations makes it: one call on operand bytes and a    *)
(* Flags value drawn from samples                                          *)

AluBytes == {0, 1, 2, 3, 8, 9, 10, 127, 128, 129, 254, 255}

\* no flag, CY, Z and P, S and CY, all five flags
AluFlags == {0, 1, 68, 129, 213}

InitAlu ==
    /\ \E f \in AluFlags : cpu = [Cpu_init EXCEPT !.flags = f]
    /\ overflow_checks \in BOOLEAN
    /\ daa_outcome = DaaUnmet
    /\ hardware = Hardware_init /\ pre_hardware = Hardware_init
    /\ fn = "none" /\ arg = <<>> /\ pre = Cpu_init /\ result = NoResult
    /\ prev = NoCall
    /\ steps = 0
    /\ frame = Frame_init /\ trace = Trace_init

\* out is what the primitive returns and the Flags it leaves
AluCall(name, args, out) ==
    /\ Logged(name, args)
    /\ UNCHANGED hardware
    /\ IF out.flags = FLAGS_ABORT
       THEN cpu' = cpu /\ result' = Panicked
       ELSE cpu' = [cpu EXCEPT !.flags = out.flags]
            /\ result' = Returns(<<out.result>>)

AddCall == fn = "none" /\ \E x \in AluBytes, y \in AluBytes :
              \E out \in {add(x, y, cpu.flags)} : AluCall("add", <<x, y>>, out)

AdcCall == fn = "none" /\ \E x \in AluBytes, y \in AluBytes :
              \E out \in {adc(x, y, cpu.flags)} : AluCall("adc", <<x, y>>, out)

SubCall == fn = "none" /\ \E x \in AluBytes, y \in AluBytes :
              \E out \in {sub(x, y, cpu.flags)} : AluCall("sub", <<x, y>>, out)

SbbCall == fn = "none" /\ \E x \in AluBytes, y \in AluBytes :
              \E out \in {sbb(x, y, cpu.flags)} : AluCall("sbb", <<x, y>>, out)

InrCall == fn = "none" /\ \E x \in AluBytes :
              \E out \in {inr(x, cpu.flags)} : AluCall("inr", <<x>>, out)

DcrCall == fn = "none" /\ \E x \in AluBytes :
              \E out \in {dcr(x, cpu.flags)} : AluCall("dcr", <<x>>, out)

NextAlu == AddCall \/ AdcCall \/ SubCall \/ SbbCall \/ InrCall \/ DcrCall

SpecAlu == InitAlu /\ [][NextAlu]_vars

---------------------------------------------------------------------------
(* Sequences of rotate instructions on an accumulator and a Carry drawn    *)
(* from samples, as the Rotate part of test_logical_operations makes them  *)

RotateBytes == {0, 1, 2, 64, 127, 128, 129, 170, 254, 255}

\* no flag, CY, all five flags
RotateFlags == {0, 1, 213}

\* RLC, RRC, RAL, RAR
RotateOpcodes == {7, 15, 23, 31}

InitRotate ==
    /\ \E x \in RotateBytes, f \in RotateFlags :
          cpu = [Cpu_init EXCEPT !.a = x, !.flags = f]
    /\ overflow_checks \in BOOLEAN
    /\ daa_outcome = DaaUnmet
    /\ hardware = Hardware_init /\ pre_hardware = Hardware_init
    /\ fn = "none" /\ arg = <<>> /\ pre = Cpu_init /\ result = NoResult
    /\ prev = NoCall
    /\ steps = 0
    /\ frame = Frame_init /\ trace = Trace_init

RotateStep ==
    steps < MaxRotates /\ \E op_code \in RotateOpcodes : HandleCall(op_code)

NextRotate == RotateStep

SpecRotate == InitRotate /\ [][NextRotate]_vars

---------------------------------------------------------------------------
(* Sequences of handle_io calls on a Hardware whose shift register, shift  *)
(* amount and input ports are drawn from samples, as test_handle_io sets   *)
(* them                                                                    *)

\* 0x0000 and 0b0001111111100000
IoRegisters == {0, 8160}

IoAmounts == {0, 3}

\* the input ports at rest and with keys down
IoInputs == {<<0, 0>>, <<8, 131>>}

\* OUT, IN, and an opcode of the cpu module (NOP)
IoOpcodes == {OUT, IN_, 0}

IoPortBytes == 0..7

IoBytes == {3, 31, 224}

InitHardware ==
    /\ cpu = Cpu_init
    /\ \E r \in IoRegisters, amount \in IoAmounts, inputs \in IoInputs :
          /\ hardware = [shift_register |-> r,
                         ports |-> [Ports_new EXCEPT !.shift_amount = amount,
                                                     !.input_1 = inputs[1],
                                                     !.input_2 = inputs[2]]]
          /\ pre_hardware = hardware
    /\ overflow_checks \in BOOLEAN
    /\ daa_outcome = DaaUnmet
    /\ fn = "none" /\ arg = <<>> /\ pre = Cpu_init /\ result = NoResult
    /\ prev = NoCall
    /\ steps = 0
    /\ frame = Frame_init /\ trace = Trace_init

HandleIoCall(op_code, port_byte, reg_a) ==
    /\ Logged("handle_io", <<op_code, port_byte, reg_a>>)
    /\ UNCHANGED cpu
    /\ \E out \in {handle_io(op_code, hardware, port_byte, reg_a)} :
          hardware' = out.hardware /\ result' = out.result

IoStep ==
    /\ steps < MaxIoCalls
    /\ \E op_code \in IoOpcodes, port_byte \in IoPortBytes, reg_a \in IoBytes :
          HandleIoCall(op_code, port_byte, reg_a)

\* hardware.reset() between the calls, as test_handle_io does
HardwareResetCall ==
    /\ Logged("Hardware::reset", <<>>)
    /\ UNCHANGED cpu
    /\ hardware' = Hardware_reset(hardware)
    /\ result' = Unit

HardwareResetStep == steps < MaxIoCalls /\ HardwareResetCall

NextHardware == IoStep \/ HardwareResetStep

SpecHardware == InitHardware /\ [][NextHardware]_vars

---------------------------------------------------------------------------
(* Instructions interleaved with interrupts, as the frame loop of main     *)
(* interleaves update with generate_interrupt                              *)

\* DI, EI, INR A
InterruptOpcodes == {243, 251, 60}

\* the mid-screen and the full-screen interrupt: RST 1, RST 2
InterruptVectors == {207, 215}

InitInterrupt ==
    /\ cpu = Cpu_init
    /\ hardware = Hardware_init /\ pre_hardware = Hardware_init
    /\ overflow_checks \in BOOLEAN
    /\ daa_outcome = DaaUnmet
    /\ fn = "none" /\ arg = <<>> /\ pre = Cpu_init /\ result = NoResult
    /\ prev = NoCall
    /\ steps = 0
    /\ frame = Frame_init /\ trace = Trace_init

InstructionStep ==
    /\ steps < MaxInterruptSteps
    /\ \E op_code \in InterruptOpcodes : HandleCall(op_code)

InterruptCall(op_code) ==
    /\ Logged("generate_interrupt", <<op_code>>)
    /\ UNCHANGED hardware
    /\ \E out \in {generate_interrupt(overflow_checks, op_code, cpu)} :
          cpu' = out.cpu /\ result' = out.result

InterruptStep ==
    /\ steps < MaxInterruptSteps
    /\ \E op_code \in InterruptVectors : InterruptCall(op_code)

NextInterrupt == InstructionStep \/ InterruptStep

SpecInterrupt == InitInterrupt /\ [][NextInterrupt]_vars

---------------------------------------------------------------------------
(* PUSH PSW and POP PSW around instructions that change the accumulator    *)
(* and the flags, as the PUSH & POP PSW part of test_operation_handling    *)
(* makes them                                                              *)

PswAccumulators == {255, 18}

\* 0b10101010 (the byte the test assigns), all five flags, no flag
PswFlags == {170, 213, 0}

\* PUSH PSW, POP PSW
PswOpcodes == {245, 241}

\* INR A, STC, XRA A: they change A or the flags and leave the stack alone
BetweenOpcodes == {60, 55, 175}

InitPsw ==
    /\ \E x \in PswAccumulators, f \in PswFlags :
          cpu = [Cpu_init EXCEPT !.a = x, !.flags = f]
    /\ hardware = Hardware_init /\ pre_hardware = Hardware_init
    /\ overflow_checks \in BOOLEAN
    /\ daa_outcome = DaaUnmet
    /\ fn = "none" /\ arg = <<>> /\ pre = Cpu_init /\ result = NoResult
    /\ prev = NoCall
    /\ steps = 0
    /\ frame = Frame_init /\ trace = Trace_init

PswStep ==
    /\ steps < MaxPswSteps
    /\ \E op_code \in PswOpcodes \cup BetweenOpcodes : HandleCall(op_code)

NextPsw == PswStep

SpecPsw == InitPsw /\ [][NextPsw]_vars

---------------------------------------------------------------------------
(* Loads and stores through an absolute address, on registers drawn from   *)
(* samples, as the LXI SP, STA & LDA and SHLD & LHLD parts of              *)
(* test_operation_handling make them                                       *)

\* operands 0xc3d4 at 0x0005, operands 0x0007 at 0x2401
AbsolutePc == {5, 9217}

\* LXI B, LXI D, LXI H, LXI SP, SHLD, LHLD, STA, LDA
AbsoluteOpcodes == {1, 17, 33, 49, 34, 42, 50, 58}

\* CMA: changes A between an STA and an LDA (LXI H does so for HL)
ComplementOpcodes == {47}

InitAbsolute ==
    /\ \E r \in SampleRegisters, p \in AbsolutePc :
          cpu = [a |-> r.a, b |-> r.b, c |-> r.c, d |-> r.d, e |-> r.e,
                 h |-> r.h, l |-> r.l, sp |-> Cpu_init.sp, pc |-> p,
                 memory |-> SampleMemory, flags |-> Flags_new,
                 interrupt_enabled |-> FALSE]
    /\ hardware = Hardware_init /\ pre_hardware = Hardware_init
    /\ overflow_checks \in BOOLEAN
    /\ daa_outcome = DaaUnmet
    /\ fn = "none" /\ arg = <<>> /\ pre = Cpu_init /\ result = NoResult
    /\ prev = NoCall
    /\ steps = 0
    /\ frame = Frame_init /\ trace = Trace_init

AbsoluteStep ==
    /\ steps < MaxAbsoluteSteps
    /\ \E op_code \in AbsoluteOpcodes \cup ComplementOpcodes : HandleCall(op_code)

NextAbsolute == AbsoluteStep

SpecAbsolute == InitAbsolute /\ [][NextAbsolute]_vars

---------------------------------------------------------------------------
(* The driver step: update fetches the opcode at pc, hands IN and OUT to   *)
(* the hardware and every other opcode to handle_op_code, and advances pc  *)
(* by the additional bytes reported.  Its return value, the cycle count of *)
(* the opcode, is a table lookup that changes no state.                    *)

\* the bits of input port 1 and of input port 2 that a key drives
INPUT_1_KEYS == 119
INPUT_2_KEYS == 116

\* keys is the pair of bytes with the bit of every key that is down
read_input(keys, hw) ==
    [hw EXCEPT !.ports.input_1 = BitOr(BitAnd(@, 255 - INPUT_1_KEYS), keys[1]),
               !.ports.input_2 = BitOr(BitAnd(@, 255 - INPUT_2_KEYS), keys[2])]

\* the fetch reads memory at pc, pc + 1 and pc + 2
update_aborts(st) == ~InBounds(st.pc + 2)

\* the IN / OUT arm: the port byte is the byte after the opcode
update_io(io, st) ==
    IF io.result = Panicked
    THEN [cpu |-> st, hardware |-> io.hardware, result |-> Panicked]
    ELSE [cpu      |-> IF io.result.val = None THEN st
                       ELSE [st EXCEPT !.a = io.result.val[1]],
          hardware |-> io.hardware,
          result   |-> Ok(1)]

\* match result: Err is printed, Ok(255) is the HALT panic, Ok(n) moves pc
update_result(oc, out, hw) ==
    IF out.result = Panicked
    THEN [cpu |-> out.cpu, hardware |-> hw, result |-> Panicked]
    ELSE IF out.result.kind = "Err"
    THEN [cpu |-> out.cpu, hardware |-> hw, result |-> out.result]
    ELSE IF out.result.val[1] = 255
           \/ Overflows(oc, out.cpu.pc + out.result.val[1])
    THEN [cpu |-> out.cpu, hardware |-> hw, result |-> Panicked]
    ELSE [cpu      |-> [out.cpu EXCEPT !.pc = Wrap16(@ + out.result.val[1])],
          hardware |-> hw,
          result   |-> out.result]

update(oc, keys, hw, st) ==
    IF update_aborts(st)
    THEN [cpu |-> st, hardware |-> hw, result |-> Panicked]
    ELSE LET op_code == read_at(st.memory, st.pc)
             fetched == [st EXCEPT !.pc = st.pc + 1]
             outcome ==
               IF op_code \in {IN_, OUT}
               THEN { update_result(oc, update_io(io, fetched), io.hardware) :
                        io \in {handle_io(op_code, read_input(keys, hw),
                                          read_at(st.memory, st.pc + 1), st.a)} }
               ELSE { update_result(oc, out, read_input(keys, hw)) :
                        out \in {handle_op_code(oc, op_code, fetched)} }
         IN  CHOOSE r \in { IF o.result = Panicked
                            THEN [cpu |-> st, hardware |-> hw, result |-> Panicked]
                            ELSE o : o \in outcome } : TRUE

\* no key, the coin, and player 1 shooting while the machine is tilted
DriverKeys == {<<0, 0>>, <<1, 0>>, <<16, 4>>}

\* a port byte the hardware knows, and the low operand byte of SampleMemory
DriverOperands == {3, 212}

DriverPcs == {4}

\* the instruction at pc is any opcode, followed by two operand bytes
InitDriver ==
    /\ \E r \in SampleRegisters, f \in SampleFlags, op_code \in 0..255,
          byte \in DriverOperands, p \in DriverPcs :
          cpu = [a |-> r.a, b |-> r.b, c |-> r.c, d |-> r.d, e |-> r.e,
                 h |-> r.h, l |-> r.l, sp |-> Cpu_init.sp, pc |-> p,
                 memory |-> write_at(write_at(SampleMemory, p, op_code),
                                     p + 1, byte),
                 flags |-> f, interrupt_enabled |-> FALSE]
    /\ hardware = Hardware_init /\ pre_hardware = Hardware_init
    /\ overflow_checks \in BOOLEAN
    /\ daa_outcome \in DaaOutcomes
    /\ fn = "none" /\ arg = <<>> /\ pre = Cpu_init /\ result = NoResult
    /\ prev = NoCall
    /\ steps = 0
    /\ frame = Frame_init /\ trace = Trace_init

UpdateCall(keys) ==
    /\ Logged("update", <<read_at(cpu.memory, cpu.pc)>>)
    /\ \E out \in {update(overflow_checks, keys, hardware, cpu)} :
          cpu' = out.cpu /\ hardware' = out.hardware /\ result' = out.result

UpdateStep ==
    /\ steps < MaxDriverSteps
    /\ \E keys \in DriverKeys : UpdateCall(keys)

NextDriver == UpdateStep

SpecDriver == InitDriver /\ [][NextDriver]_vars

---------------------------------------------------------------------------
(* A program with interrupt handlers, run by update with interrupts        *)
(* arriving between instructions                                           *)

\* 0x0000: EI, INR A; 0x0008: RET; 0x0010: INR A, RET; 0x0140: EI, NOP ..
HandlerImage ==
    write_at(write_at(write_at(write_at(write_at(write_at(Memory_init,
        0, 251), 1, 60), 8, 201), 16, 60), 17, 201), 320, 251)

HandlerEntries == {0, 320}

InitHandler ==
    /\ \E p \in HandlerEntries :
          cpu = [Cpu_init EXCEPT !.memory = HandlerImage, !.pc = p]
    /\ hardware = Hardware_init /\ pre_hardware = Hardware_init
    /\ overflow_checks \in BOOLEAN
    /\ daa_outcome = DaaUnmet
    /\ fn = "none" /\ arg = <<>> /\ pre = Cpu_init /\ result = NoResult
    /\ prev = NoCall
    /\ steps = 0
    /\ frame = Frame_init /\ trace = Trace_init

HandlerUpdate ==
    /\ steps < MaxHandlerSteps
    /\ \E keys \in DriverKeys : UpdateCall(keys)

HandlerInterrupt ==
    /\ steps < MaxHandlerSteps
    /\ \E op_code \in InterruptVectors : InterruptCall(op_code)

NextHandler == HandlerUpdate \/ HandlerInterrupt

SpecHandler == InitHandler /\ [][NextHandler]_vars

---------------------------------------------------------------------------
(* C1: push/pop round trip.  For every byte pair and every stack pointer   *)
(* s with 2 <= s <= 0xFFFE, push((hi, lo)) followed at once by pop returns *)
(* exactly (hi, lo) and leaves the stack pointer equal to s; neither call  *)
(* aborts.                                                                 *)
C1_PushPopRoundTrip ==
    /\ (fn = "push" /\ pre.sp >= 2 /\ pre.sp <= 65534) => result = Unit
    /\ (fn = "pop" /\ prev.fn = "push" /\ prev.pre.sp >= 2 /\ prev.pre.sp <= 65534)
          => /\ result = Returns(prev.arg)
             /\ cpu.sp = prev.pre.sp

C1_Witness ==
    /\ fn = "pop" /\ prev.fn = "push"
    /\ prev.pre.sp = 65534
    /\ prev.arg = <<212, 195>>
    /\ result = Returns(<<212, 195>>)
    /\ cpu.sp = 65534

---------------------------------------------------------------------------
(* Vocabulary of the claims about branches, read off the opcode table      *)

JccOps == {194, 202, 210, 218, 226, 234, 242, 250}
CccOps == {196, 204, 212, 220, 228, 236, 244, 252}
RccOps == {192, 200, 208, 216, 224, 232, 240, 248}

\* the flag a conditional opcode tests (Z, CY, P, S by pairs of rows) and
\* whether that flag has the value the opcode asks for
Taken(op_code, flags) ==
    LET ccc  == (op_code \div 8) % 8
        mask == CASE ccc \div 2 = 0 -> 64 [] ccc \div 2 = 1 -> 1
                  [] ccc \div 2 = 2 -> 4  [] ccc \div 2 = 3 -> 128
    IN  (flags \div mask) % 2 = ccc % 2

\* the 16-bit target in the two operand bytes at pc, low byte first
LittleEndianOperand(st) ==
    read_at(st.memory, Wrap16(st.pc + 1)) * 256 + read_at(st.memory, st.pc)

---------------------------------------------------------------------------
(* C2: call/return symmetry.  A CALL (0xcd) executed with pc = p at its    *)
(* first operand byte sets pc to the little-endian target, lowers sp by 2  *)
(* and leaves the two bytes of p + 2 in the two stack cells it wrote; a    *)
(* RET (0xc9) executed next sets pc = p + 2 and restores sp to its value   *)
(* before the CALL.                                                        *)
C2_CallRetSymmetry ==
    /\ (fn = "handle_op_code" /\ arg = <<205>> /\ result.kind = "Ok")
          => /\ cpu.pc = LittleEndianOperand(pre)
             /\ cpu.sp = Wrap16(pre.sp - 2)
             /\ LET hi == Wrap16(pre.pc + 2) \div 256
                    lo == Wrap16(pre.pc + 2) % 256
                    c1 == read_at(cpu.memory, Wrap16(cpu.sp + 1))
                    c2 == read_at(cpu.memory, Wrap16(cpu.sp + 2))
                IN  <<c1, c2>> \in {<<hi, lo>>, <<lo, hi>>}
    /\ (fn = "handle_op_code" /\ arg = <<201>> /\ result.kind = "Ok"
          /\ prev.fn = "handle_op_code" /\ prev.arg = <<205>>)
          => /\ cpu.pc = Wrap16(prev.pre.pc + 2)
             /\ cpu.sp = prev.pre.sp

C2_Witness ==
    /\ fn = "handle_op_code" /\ arg = <<201>>
    /\ prev.fn = "handle_op_code" /\ prev.arg = <<205>>
    /\ prev.pre.pc = 5 /\ prev.pre.sp = 9216
    /\ pre.pc = 50132 /\ pre.sp = 9214
    /\ result = Ok(0)
    /\ cpu.pc = 7 /\ cpu.sp = 9216

---------------------------------------------------------------------------
(* C3: whenever a jump or call transfers control (JMP 0xc3, CALL 0xcd and  *)
(* every taken Jxx / Cxx), handle_op_code reports 0 additional bytes, so   *)
(* that pc plus the reported count is exactly the 16-bit target composed   *)
(* from the two little-endian operand bytes.                               *)
C3_TakenBranchReportsZero ==
    (/\ fn = "handle_op_code" /\ result.kind = "Ok"
     /\ \/ arg[1] \in {195, 205}
        \/ arg[1] \in JccOps \cup CccOps /\ Taken(arg[1], pre.flags))
    => /\ result = Ok(0)
       /\ Wrap16(cpu.pc + result.val[1]) = LittleEndianOperand(pre)

C3_Witness ==
    /\ fn = "handle_op_code" /\ arg = <<196>>
    /\ pre.flags = 0 /\ pre.pc = 5 /\ pre.sp = 9216
    /\ result = Ok(0)
    /\ cpu.pc = 50132

---------------------------------------------------------------------------
(* C4: a conditional jump, call or return whose condition is false changes *)
(* nothing: pc, sp, every register, the flags and all of memory are as     *)
(* before (no return address is pushed, nothing is popped), and the result *)
(* is 2 for Jxx / Cxx and 0 for Rxx.                                       *)
C4_NotTakenChangesNothing ==
    (/\ fn = "handle_op_code" /\ result.kind = "Ok"
     /\ arg[1] \in JccOps \cup CccOps \cup RccOps
     /\ ~Taken(arg[1], pre.flags))
    => /\ cpu = pre
       /\ result = IF arg[1] \in RccOps THEN Ok(0) ELSE Ok(2)

C4_Witness ==
    /\ fn = "handle_op_code" /\ arg = <<196>>
    /\ pre.flags = 68 /\ pre.pc = 5 /\ pre.sp = 9216
    /\ result = Ok(2)
    /\ cpu = pre

---------------------------------------------------------------------------
(* C5: flags representation invariant.  In every state reached from the    *)
(* initial Cpu by a sequence of opcodes, POP PSW included, the three       *)
(* reserved bits of the flags byte (bits 1, 3 and 5) are zero.             *)
C5_ReservedBitsZero == BitAnd(cpu.flags, 42) = 0

---------------------------------------------------------------------------
(* C6: for every opcode byte and every Cpu, handle_op_code completes with  *)
(* a count of additional bytes in {0, 1, 2}, the HALT sentinel 255, or an  *)
(* unimplemented-opcode failure; it never aborts in any other way.         *)
C6_DispatchTotal ==
    fn = "handle_op_code"
    => \/ result \in {Ok(0), Ok(1), Ok(2), Ok(255)}
       \/ result = Err(arg[1])

---------------------------------------------------------------------------
(* C7: dispatching a reserved opcode (0x08, 0x10, 0x18, 0x20, 0x28, 0x30,  *)
(* 0x38, 0xcb, 0xd9, 0xdd, 0xed, 0xfd) yields an UnimplementedOpcode       *)
(* failure that identifies the opcode, not a successful byte count.        *)
C7_ReservedOpcodeFails ==
    (fn = "handle_op_code" /\ arg[1] \in RESERVED) => result = Err(arg[1])

---------------------------------------------------------------------------
(* C8: dispatching a reserved opcode leaves the whole Cpu unchanged: the   *)
(* seven registers, the flags byte, sp, pc, the interrupt-enable bit and   *)
(* every memory cell are after the call what they were before it.          *)
C8_ReservedLeavesStateUnchanged ==
    (fn = "handle_op_code" /\ arg[1] \in RESERVED)
    => /\ result.kind # "Panic"
       /\ cpu = pre

C8_Witness ==
    /\ fn = "handle_op_code" /\ arg = <<203>>
    /\ pre.flags = 213 /\ pre.pc = 5 /\ pre.a = 15
    /\ result.kind = "Ok"
    /\ cpu = pre

---------------------------------------------------------------------------
(* C9: HALT (0x76) returns the sentinel 255 without changing the Cpu, and  *)
(* 0x76 is the only opcode for which handle_op_code returns 255: every     *)
(* other successful result is 0, 1 or 2.                                   *)
C9_HaltSentinel ==
    fn = "handle_op_code"
    => /\ arg[1] = 118 => (result = Ok(255) /\ cpu = pre)
       /\ (result.kind = "Ok" /\ arg[1] # 118) => result.val[1] \in {0, 1, 2}

C9_Witness ==
    /\ fn = "handle_op_code" /\ arg = <<118>>
    /\ pre.flags = 213 /\ pre.sp = 1
    /\ result = Ok(255)
    /\ cpu = pre

---------------------------------------------------------------------------
(* C10: Memory is total over the 16-bit address space: read_at(a) and      *)
(* write_at(a, b) succeed for every a in 0..65535, 0xFFFF included; a      *)
(* fresh memory reads 0; after write_at(a, b) read_at(a) returns b and     *)
(* every other address is unchanged.                                       *)
C10_MemoryTotal ==
    /\ fn \in {"read_at", "write_at"} => result.kind # "Panic"
    /\ (fn = "read_at" /\ steps = 1) => result = Returns(<<0>>)
    /\ (fn = "read_at" /\ prev.fn = "write_at" /\ arg[1] = prev.arg[1])
          => result = Returns(<<prev.arg[2]>>)
    /\ fn = "write_at" =>
          \A x \in Addresses \ {arg[1]} : read_at(cpu.memory, x) = read_at(pre.memory, x)

---------------------------------------------------------------------------
(* Vocabulary of the claims about the arithmetic primitives: the operands  *)
(* of the logged call, the carry-in, and the byte the call returned        *)

ArithmeticFns == {"add", "adc", "sub", "sbb", "inr", "dcr"}

Returned == result.kind = "Value"

CarryIn == check_flag(pre.flags, "CY")

FlagIs(flag, condition) == check_flag(cpu.flags, flag) = 1 <=> condition

(* C11: after each of add, adc, sub, sbb, inr and dcr, for all operand     *)
(* bytes and carry-in values, the Zero flag is set if and only if the      *)
(* 8-bit result the operation returned is 0.                               *)
C11_ZeroIffResultZero ==
    (fn \in ArithmeticFns /\ Returned) => FlagIs("Z", result.val[1] = 0)

(* C12: for all bytes x, y, add(x, y) returns (x + y) mod 256 and sets     *)
(* Carry iff x + y > 255; sub(x, y) returns (x - y) mod 256 and sets Carry *)
(* iff x < y, and a negative intermediate also sets Sign.                  *)
C12_CarryAfterArithmetic ==
    /\ (fn = "add" /\ Returned) =>
          /\ result.val[1] = (arg[1] + arg[2]) % 256
          /\ FlagIs("CY", arg[1] + arg[2] > 255)
    /\ (fn = "sub" /\ Returned) =>
          /\ result.val[1] = (arg[1] - arg[2]) % 256
          /\ FlagIs("CY", arg[1] < arg[2])
          /\ (arg[1] - arg[2] < 0 => check_flag(cpu.flags, "S") = 1)

(* C13: adc and sbb include the carry-in c in the result and in the flags: *)
(* adc(x, y) returns (x + y + c) mod 256, with Carry set iff x + y + c >   *)
(* 255 and Zero set iff that result is 0; sbb(x, y) returns (x - y - c)    *)
(* mod 256, with Carry set iff x < y + c.                                  *)
C13_CarryInResultAndFlags ==
    /\ (fn = "adc" /\ Returned) =>
          /\ result.val[1] = (arg[1] + arg[2] + CarryIn) % 256
          /\ FlagIs("CY", arg[1] + arg[2] + CarryIn > 255)
          /\ FlagIs("Z", (arg[1] + arg[2] + CarryIn) % 256 = 0)
    /\ (fn = "sbb" /\ Returned) =>
          /\ result.val[1] = (arg[1] - arg[2] - CarryIn) % 256
          /\ FlagIs("CY", arg[1] < arg[2] + CarryIn)

(* C14: inr and dcr never change Carry: for every operand byte x (0xFF for *)
(* inr and 0x00 for dcr included) and either prior Carry, Carry after the  *)
(* call equals Carry before it, and the call returns (x + 1) mod 256       *)
(* resp. (x - 1) mod 256.                                                  *)
C14_IncrementKeepsCarry ==
    /\ (fn = "inr" /\ Returned) =>
          /\ check_flag(cpu.flags, "CY") = CarryIn
          /\ result.val[1] = (arg[1] + 1) % 256
    /\ (fn = "dcr" /\ Returned) =>
          /\ check_flag(cpu.flags, "CY") = CarryIn
          /\ result.val[1] = (arg[1] - 1) % 256

\* inr(0xFF) wrapped to 0 with Carry clear before and after
C14_Witness ==
    /\ fn = "inr" /\ arg = <<255>> /\ Returned
    /\ CarryIn = 0
    /\ result.val[1] = 0
    /\ check_flag(cpu.flags, "CY") = 0

---------------------------------------------------------------------------
(* Vocabulary of the claims about the accumulator group, read off the      *)
(* opcode table: the arms, and the operand byte an arm works on            *)

\* CMP B .. CMP A (M at 0xbe) and CPI
CmpOps == (184..191) \cup {254}

\* ANA, XRA, ORA with a register or M, and ANI, XRI, ORI
AndOps == (160..167) \cup {230}
XorOps == (168..175) \cup {238}
OrOps  == (176..183) \cup {246}
LogicOps == AndOps \cup XorOps \cup OrOps

\* the register or memory cell named by the low three bits, or the byte at pc
ArmOperand(op_code, st) ==
    IF op_code >= 192 THEN immediate(st) ELSE operand(st, op_code % 8)

Dispatched(ops) ==
    fn = "handle_op_code" /\ arg[1] \in ops /\ result.kind = "Ok"

(* C15: Compare (CMP r, CMP M, CPI) leaves the accumulator, every other    *)
(* register and every memory cell unchanged, sets Zero iff the accumulator *)
(* equals the operand, and sets Carry iff the accumulator is smaller than  *)
(* the operand.                                                            *)
C15_CompareOnlySetsFlags ==
    Dispatched(CmpOps) =>
        /\ [cpu EXCEPT !.flags = pre.flags] = pre
        /\ FlagIs("Z", pre.a = ArmOperand(arg[1], pre))
        /\ FlagIs("CY", pre.a < ArmOperand(arg[1], pre))

\* CMP C with a = 0x80 below c = 0xff, and Carry clear before
C15_Witness ==
    /\ Dispatched({185})
    /\ pre.a = 128 /\ pre.c = 255 /\ check_flag(pre.flags, "CY") = 0
    /\ cpu.a = 128
    /\ check_flag(cpu.flags, "CY") = 1 /\ check_flag(cpu.flags, "Z") = 0

(* C16: the logical group (ANA / XRA / ORA with a register or memory       *)
(* operand, and ANI / XRI / ORI) stores the bitwise AND / XOR / OR of the  *)
(* accumulator and the operand in the accumulator, leaves Carry clear      *)
(* whatever it was before, sets Zero iff the result is 0, and sets Sign    *)
(* when the result is exactly 0b1000_0000.                                 *)
C16_LogicalGroup ==
    Dispatched(LogicOps) =>
        /\ (arg[1] \in AndOps => cpu.a = BitAnd(pre.a, ArmOperand(arg[1], pre)))
        /\ (arg[1] \in XorOps => cpu.a = BitXor(pre.a, ArmOperand(arg[1], pre)))
        /\ (arg[1] \in OrOps  => cpu.a = BitOr(pre.a, ArmOperand(arg[1], pre)))
        /\ check_flag(cpu.flags, "CY") = 0
        /\ FlagIs("Z", cpu.a = 0)
        /\ (cpu.a = 128 => check_flag(cpu.flags, "S") = 1)

\* ANI 0xd4 on a = 0xff with Carry set: the accumulator becomes 0xd4
C16_Witness ==
    /\ Dispatched({230})
    /\ pre.a = 255 /\ pre.pc = 5 /\ check_flag(pre.flags, "CY") = 1
    /\ cpu.a = 212
    /\ check_flag(cpu.flags, "CY") = 0

---------------------------------------------------------------------------
\* the call before the last one was handle_op_code(first), the last one
\* handle_op_code(second), and both returned
DispatchedInTurn(first, second) ==
    /\ Dispatched({second})
    /\ prev.fn = "handle_op_code" /\ prev.arg = <<first>>
    /\ prev.result.kind = "Ok"

(* C17: for every byte x and prior Carry c, rotate_left sets Carry to bit  *)
(* 7 of x and returns (x << 1) mod 256 with bit 0 equal to the old bit 7   *)
(* (RLC) or to c (RAL); rotate_right sets Carry to bit 0 of x and returns  *)
(* x >> 1 with bit 7 equal to the old bit 0 (RRC) or to c (RAR).  Hence    *)
(* RLC followed by RRC restores the accumulator, and RAL followed by RAR   *)
(* restores the accumulator and Carry.                                     *)
C17_Rotates ==
    /\ Dispatched({7, 23}) =>
          /\ check_flag(cpu.flags, "CY") = Bit(pre.a, 7)
          /\ cpu.a = ((pre.a * 2) % 256)
                       + (IF arg[1] = 7 THEN Bit(pre.a, 7) ELSE CarryIn)
    /\ Dispatched({15, 31}) =>
          /\ check_flag(cpu.flags, "CY") = Bit(pre.a, 0)
          /\ cpu.a = (pre.a \div 2)
                       + 128 * (IF arg[1] = 15 THEN Bit(pre.a, 0) ELSE CarryIn)
    /\ DispatchedInTurn(7, 15) => cpu.a = prev.pre.a
    /\ DispatchedInTurn(23, 31) =>
          /\ cpu.a = prev.pre.a
          /\ check_flag(cpu.flags, "CY") = check_flag(prev.pre.flags, "CY")

\* RAL then RAR on a = 0x81 with Carry clear: 0x02 with Carry set in between
C17_Witness ==
    /\ DispatchedInTurn(23, 31)
    /\ prev.pre.a = 129 /\ check_flag(prev.pre.flags, "CY") = 0
    /\ pre.a = 2 /\ CarryIn = 1
    /\ cpu.a = 129 /\ check_flag(cpu.flags, "CY") = 0

---------------------------------------------------------------------------
(* Vocabulary of the claims about the ports: the last call was             *)
(* handle_io(op_code, .., port_byte, ..) and it returned                   *)

IoReturned(op_code, port_bytes) ==
    /\ fn = "handle_io" /\ arg[1] = op_code /\ arg[2] \in port_bytes
    /\ Returned

\* the call before it was an OUT to the shift-data port that returned
ShiftDataWrittenBefore ==
    /\ prev.fn = "handle_io" /\ prev.arg[1] = OUT /\ prev.arg[2] = 4
    /\ prev.result.kind = "Value"

(* C18: every write of a byte b to the shift-data port (OUT 4) replaces    *)
(* the 16-bit shift register r by (b << 8) | (r >> 8) and changes no port  *)
(* value; hence after two consecutive writes b1 then b2 the register is    *)
(* (b2 << 8) | b1 whatever it held before.                                 *)
C18_ShiftDataWrite ==
    /\ IoReturned(OUT, {4}) =>
          /\ hardware.shift_register
                = arg[3] * 256 + (pre_hardware.shift_register \div 256)
          /\ hardware.ports = pre_hardware.ports
    /\ (IoReturned(OUT, {4}) /\ ShiftDataWrittenBefore) =>
          hardware.shift_register = arg[3] * 256 + prev.arg[3]

\* 0x1f then 0xe0 written: the register holds 0xe01f
C18_Witness ==
    /\ IoReturned(OUT, {4}) /\ ShiftDataWrittenBefore
    /\ prev.arg[3] = 31 /\ arg[3] = 224
    /\ hardware.shift_register = 57375

(* C19: reading the shift-result port (IN 3) returns                       *)
(* (register >> (8 - amount)) & 0xff, where amount (0..7) is the low three *)
(* bits of the value last written to the shift-amount port (OUT 2); e.g.   *)
(* register 0b0001111111100000 with amount 3 reads 0xff.                   *)
C19_ShiftResultWindow ==
    IoReturned(IN_, {3}) =>
        result.val = Some((pre_hardware.shift_register
                             \div (2 ^ (8 - (pre_hardware.ports.shift_amount % 8))))
                          % 256)

(* C20: handle_io with OUT (0xd3) on a write port (2 .. 6) stores the      *)
(* accumulator value in the named port (for the shift-data port: as the    *)
(* high byte of the shift register) and returns None; with IN (0xdb) on    *)
(* ports 1, 2, 3 it returns Some of input-1, input-2 and the shift result, *)
(* the two input ports read verbatim, and leaves the whole Hardware as it  *)
(* was.                                                                    *)
C20_HandleIo ==
    /\ IoReturned(OUT, 2..6) =>
          /\ result.val = None
          /\ (arg[2] = 2 => hardware.ports.shift_amount = arg[3])
          /\ (arg[2] = 3 => hardware.ports.sound_1 = arg[3])
          /\ (arg[2] = 4 => hardware.shift_register \div 256 = arg[3])
          /\ (arg[2] = 5 => hardware.ports.sound_2 = arg[3])
          /\ (arg[2] = 6 => hardware.ports.watchdog = arg[3])
    /\ IoReturned(IN_, 1..3) =>
          /\ hardware = pre_hardware
          /\ (arg[2] = 1 => result.val = Some(pre_hardware.ports.input_1))
          /\ (arg[2] = 2 => result.val = Some(pre_hardware.ports.input_2))
          /\ (arg[2] = 3 => result.val = Some(read_port("SHFTIN", pre_hardware)))
    /\ (fn = "handle_io" /\ arg[1] = OUT /\ arg[2] \in 2..6) => Returned
    /\ (fn = "handle_io" /\ arg[1] = IN_ /\ arg[2] \in 1..3) => Returned

\* IN 1 reads input-1 = 0x08 after an OUT has changed the Hardware
C20_Witness ==
    /\ IoReturned(IN_, {1})
    /\ prev.fn = "handle_io" /\ prev.arg[1] = OUT /\ prev.result = Returns(None)
    /\ pre_hardware.ports.input_1 = 8 /\ pre_hardware.ports.input_2 = 131
    /\ pre_hardware.ports.sound_1 = 224
    /\ result.val = Some(8)
    /\ hardware = pre_hardware

---------------------------------------------------------------------------
\* two memories that agree on every cell outside cells
SameExcept(memory_1, memory_2, cells) ==
    \A addr \in ((DOMAIN memory_1) \cup (DOMAIN memory_2)) \ cells :
        read_at(memory_1, addr) = read_at(memory_2, addr)

\* RST 0 .. RST 7
RstOps == {199 + 8 * n : n \in 0..7}

(* C21: for n in 0..7, RST n (opcode 0xc7 + 8n) sets pc to 8n, pushes the  *)
(* pc it was called with (the address of the instruction after the RST)   *)
(* as the return address, so that a RET would come back to it, lowers sp   *)
(* by 2 and reports 0 additional bytes; registers and flags are unchanged  *)
(* and so is memory outside the two stack cells.                           *)
C21_Restart ==
    Dispatched(RstOps) =>
        /\ result = Ok(0)
        /\ cpu.pc = arg[1] - 199
        /\ cpu.sp = Wrap16(pre.sp - 2)
        /\ ret(None, cpu.sp, cpu.memory).address = Some(pre.pc)
        /\ [cpu EXCEPT !.pc = pre.pc, !.sp = pre.sp, !.memory = pre.memory] = pre
        /\ SameExcept(cpu.memory, pre.memory, {pre.sp, Wrap16(pre.sp - 1)})

\* RST 7 at pc = 0x0005 with sp = 0x2400
C21_Witness ==
    /\ Dispatched({255})
    /\ pre.pc = 5 /\ pre.sp = 9216
    /\ cpu.pc = 56 /\ cpu.sp = 9214
    /\ ret(None, cpu.sp, cpu.memory).address = Some(5)

---------------------------------------------------------------------------
\* the last call was generate_interrupt and it returned
Interrupted == fn = "generate_interrupt" /\ result = Unit

(* C22: DI (0xf3) clears and EI (0xfb) sets interrupt_enabled and changes  *)
(* nothing else; while interrupt_enabled is false (from a DI until the     *)
(* next EI) a generate_interrupt call leaves the whole Cpu (pc, sp,        *)
(* registers, flags, memory) unchanged, and while it is true               *)
(* generate_interrupt(op) has exactly the effect of dispatching op.        *)
C22_InterruptGating ==
    /\ Dispatched({243}) => cpu = [pre EXCEPT !.interrupt_enabled = FALSE]
    /\ Dispatched({251}) => cpu = [pre EXCEPT !.interrupt_enabled = TRUE]
    /\ (Interrupted /\ ~pre.interrupt_enabled) => cpu = pre
    /\ (Interrupted /\ pre.interrupt_enabled) =>
          cpu = handle_op_code(overflow_checks, arg[1], pre).cpu
    /\ (Interrupted /\ prev.fn = "handle_op_code" /\ prev.arg = <<243>>) =>
          cpu = pre
    /\ (Interrupted /\ prev.fn = "handle_op_code" /\ prev.arg = <<251>>) =>
          /\ cpu.pc = arg[1] - 199
          /\ cpu.sp = Wrap16(pre.sp - 2)

\* EI, then RST 1 as an interrupt, taken: pc = 0x0008 and sp = 0x23fe
C22_Witness ==
    /\ Interrupted /\ arg = <<207>>
    /\ prev.fn = "handle_op_code" /\ prev.arg = <<251>>
    /\ ~prev.pre.interrupt_enabled /\ pre.interrupt_enabled
    /\ cpu.pc = 8 /\ cpu.sp = 9214

\* DI after EI, then an interrupt that is dropped
C22_WitnessMasked ==
    /\ Interrupted
    /\ prev.fn = "handle_op_code" /\ prev.arg = <<243>>
    /\ prev.pre.interrupt_enabled /\ ~pre.interrupt_enabled
    /\ cpu = pre

---------------------------------------------------------------------------
\* the call before the last one dispatched one of ops and returned
DispatchedBefore(ops) ==
    /\ prev.fn = "handle_op_code" /\ prev.arg[1] \in ops
    /\ prev.result.kind = "Ok"

\* and so did the call before that one
DispatchedTwoBefore(ops) ==
    /\ prev.before.fn = "handle_op_code" /\ prev.before.arg[1] \in ops
    /\ prev.before.result.kind = "Ok"

(* C23: PUSH PSW followed by POP PSW, at once or after instructions that   *)
(* leave the stack balanced, restores the accumulator and the flags byte   *)
(* to exactly the values they had at the PUSH PSW and restores sp,         *)
(* whatever A and the flags were in between; PUSH PSW stores A in the      *)
(* higher of the two adjacent stack cells it writes and the flags byte in  *)
(* the lower one, and lowers sp by 2.                                      *)
C23_PushPopPsw ==
    /\ Dispatched({245}) =>
          /\ cpu.sp = Wrap16(pre.sp - 2)
          /\ \E lower \in {Wrap16(pre.sp - 2), Wrap16(pre.sp - 1)} :
                /\ read_at(cpu.memory, lower + 1) = pre.a
                /\ read_at(cpu.memory, lower) = pre.flags
                /\ SameExcept(cpu.memory, pre.memory, {lower, lower + 1})
    /\ (Dispatched({241}) /\ DispatchedBefore({245})) =>
          /\ cpu.a = prev.pre.a
          /\ cpu.flags = prev.pre.flags
          /\ cpu.sp = prev.pre.sp
    /\ (Dispatched({241}) /\ DispatchedBefore(BetweenOpcodes)
           /\ DispatchedTwoBefore({245})) =>
          /\ cpu.a = prev.before.pre.a
          /\ cpu.flags = prev.before.pre.flags
          /\ cpu.sp = prev.before.pre.sp

\* PUSH PSW with A = 0xff and flags 0b10101010, XRA A, POP PSW
C23_Witness ==
    /\ Dispatched({241}) /\ DispatchedBefore({175}) /\ DispatchedTwoBefore({245})
    /\ prev.before.pre.a = 255 /\ prev.before.pre.flags = 170
    /\ pre.a = 0 /\ pre.flags # 170
    /\ cpu.a = 255 /\ cpu.flags = 170 /\ cpu.sp = 9216

---------------------------------------------------------------------------
(* C24: absolute-address loads and stores are little-endian.  The address  *)
(* is (operand byte 2 << 8) | operand byte 1; SHLD stores L there and H at *)
(* address + 1, LHLD loads L from there and H from address + 1, STA / LDA  *)
(* move A to / from the address, and LXI loads the pair's low register     *)
(* from operand byte 1 and its high register from operand byte 2.  Hence   *)
(* SHLD a then LHLD a restores HL and STA a then LDA a restores A, also    *)
(* when HL resp. A changed in between; each reports 2 additional bytes.    *)
C24_AbsoluteLittleEndian ==
    /\ Dispatched(AbsoluteOpcodes) => result = Ok(2)
    /\ Dispatched({34}) =>
          /\ read_at(cpu.memory, LittleEndianOperand(pre)) = pre.l
          /\ read_at(cpu.memory, LittleEndianOperand(pre) + 1) = pre.h
          /\ [cpu EXCEPT !.memory = pre.memory] = pre
    /\ Dispatched({42}) =>
          cpu = [pre EXCEPT
                   !.l = read_at(pre.memory, LittleEndianOperand(pre)),
                   !.h = read_at(pre.memory, LittleEndianOperand(pre) + 1)]
    /\ Dispatched({50}) =>
          /\ read_at(cpu.memory, LittleEndianOperand(pre)) = pre.a
          /\ SameExcept(cpu.memory, pre.memory, {LittleEndianOperand(pre)})
    /\ Dispatched({58}) =>
          cpu = [pre EXCEPT !.a = read_at(pre.memory, LittleEndianOperand(pre))]
    /\ Dispatched({1}) =>
          cpu = [pre EXCEPT !.c = immediate(pre), !.b = operand_bytes(pre)[2]]
    /\ Dispatched({17}) =>
          cpu = [pre EXCEPT !.e = immediate(pre), !.d = operand_bytes(pre)[2]]
    /\ Dispatched({33}) =>
          cpu = [pre EXCEPT !.l = immediate(pre), !.h = operand_bytes(pre)[2]]
    /\ Dispatched({49}) => cpu = [pre EXCEPT !.sp = LittleEndianOperand(pre)]
    /\ (Dispatched({42}) /\ DispatchedBefore({34})) =>
          cpu.h = prev.pre.h /\ cpu.l = prev.pre.l
    /\ (Dispatched({42}) /\ DispatchedBefore({33}) /\ DispatchedTwoBefore({34})) =>
          cpu.h = prev.before.pre.h /\ cpu.l = prev.before.pre.l
    /\ (Dispatched({58}) /\ DispatchedBefore({50})) => cpu.a = prev.pre.a
    /\ (Dispatched({58}) /\ DispatchedBefore({47}) /\ DispatchedTwoBefore({50})) =>
          cpu.a = prev.before.pre.a

\* SHLD 0xc3d4 with HL = 0x2010, LXI H making HL = 0xc3d4, LHLD 0xc3d4
C24_Witness ==
    /\ Dispatched({42}) /\ DispatchedBefore({33}) /\ DispatchedTwoBefore({34})
    /\ prev.before.pre.h = 32 /\ prev.before.pre.l = 16
    /\ pre.h = 195 /\ pre.l = 212
    /\ read_at(pre.memory, 50132) = 16 /\ read_at(pre.memory, 50133) = 32
    /\ cpu.h = 32 /\ cpu.l = 16

---------------------------------------------------------------------------
(* C25: XCHG and XTHL are pure exchanges.  XCHG swaps (D, E) with (H, L);  *)
(* XTHL swaps L with the byte at address sp and H with the byte at sp + 1  *)
(* and leaves sp unchanged; neither changes a flag, another register or    *)
(* another memory cell, and either one executed twice in a row restores    *)
(* the state it started from.                                              *)
C25_PureExchanges ==
    /\ Dispatched({235}) =>
          cpu = [pre EXCEPT !.h = pre.d, !.l = pre.e, !.d = pre.h, !.e = pre.l]
    /\ Dispatched({227}) =>
          /\ cpu.l = read_at(pre.memory, pre.sp)
          /\ cpu.h = read_at(pre.memory, Wrap16(pre.sp + 1))
          /\ read_at(cpu.memory, pre.sp) = pre.l
          /\ read_at(cpu.memory, Wrap16(pre.sp + 1)) = pre.h
          /\ SameExcept(cpu.memory, pre.memory, {pre.sp, Wrap16(pre.sp + 1)})
          /\ [cpu EXCEPT !.h = pre.h, !.l = pre.l, !.memory = pre.memory] = pre
    /\ (Dispatched({235}) /\ DispatchedBefore({235})) => cpu = prev.pre
    /\ (Dispatched({227}) /\ DispatchedBefore({227})) => cpu = prev.pre

(* C26: push((hi, lo)) executed with stack pointer s writes hi at address  *)
(* s - 1 and lo at address s - 2, sets the stack pointer to s - 2 and      *)
(* changes no other memory cell (so that a CALL leaves the return address  *)
(* with its high byte at s - 1 and its low byte at s - 2).                 *)
C26_PushLayout ==
    (fn = "push" /\ result = Unit) =>
        /\ read_at(cpu.memory, Wrap16(pre.sp - 1)) = arg[1]
        /\ read_at(cpu.memory, Wrap16(pre.sp - 2)) = arg[2]
        /\ cpu.sp = Wrap16(pre.sp - 2)
        /\ SameExcept(cpu.memory, pre.memory,
                      {Wrap16(pre.sp - 1), Wrap16(pre.sp - 2)})

\* the 16-bit value of the pair BC, DE, HL or of SP
OwnPair(st, rp) ==
    CASE rp = 0 -> (st.b * 256) + st.c
      [] rp = 1 -> (st.d * 256) + st.e
      [] rp = 2 -> (st.h * 256) + st.l
      [] rp = 3 -> st.sp

\* the state with that pair blanked: everything the pair is not
OtherThanPair(st, rp) ==
    CASE rp = 0 -> [st EXCEPT !.b = 0, !.c = 0]
      [] rp = 1 -> [st EXCEPT !.d = 0, !.e = 0]
      [] rp = 2 -> [st EXCEPT !.h = 0, !.l = 0]
      [] rp = 3 -> [st EXCEPT !.sp = 0]

(* C27: DAD rp (rp = BC, DE, HL, SP) sets HL to (HL + rp) mod 65536 and    *)
(* Carry iff HL + rp > 65535 and changes nothing else: Zero, Sign, Parity  *)
(* and Auxiliary Carry and every register other than H and L keep their    *)
(* values.  For DAD H the addend is HL itself, so HL is doubled.           *)
C27_DoubleAdd ==
    \A rp \in 0..3 :
        Dispatched({9 + (16 * rp)}) =>
            /\ OwnPair(cpu, 2) = (OwnPair(pre, 2) + OwnPair(pre, rp)) % 65536
            /\ FlagIs("CY", OwnPair(pre, 2) + OwnPair(pre, rp) > 65535)
            /\ cpu.flags \div 2 = pre.flags \div 2
            /\ [cpu EXCEPT !.h = pre.h, !.l = pre.l, !.flags = pre.flags] = pre
            /\ (rp = 2 => OwnPair(cpu, 2) = (2 * OwnPair(pre, 2)) % 65536)

\* DAD H doubled 0xFFFF into 0xFFFE with Carry, from a state without Carry
C27_Witness ==
    /\ Dispatched({41})
    /\ OwnPair(pre, 2) = 65535 /\ check_flag(pre.flags, "CY") = 0
    /\ OwnPair(cpu, 2) = 65534 /\ check_flag(cpu.flags, "CY") = 1

(* C28: INX rp and DCX rp, for each of the pairs BC, DE, HL and for SP,    *)
(* replace that pair by (pair + 1) mod 65536 resp. (pair - 1) mod 65536,   *)
(* computed from that pair's own high and low registers, and change no     *)
(* flag and no other register.                                             *)
C28_PairIncrement ==
    \A rp \in 0..3 :
        /\ Dispatched({3 + (16 * rp)}) =>
              /\ OwnPair(cpu, rp) = (OwnPair(pre, rp) + 1) % 65536
              /\ OtherThanPair(cpu, rp) = OtherThanPair(pre, rp)
        /\ Dispatched({11 + (16 * rp)}) =>
              /\ OwnPair(cpu, rp) = (OwnPair(pre, rp) + 65535) % 65536
              /\ OtherThanPair(cpu, rp) = OtherThanPair(pre, rp)

\* INX D took DE from 0xFFFF to 0x0000 while C was 0x00
C28_Witness ==
    /\ Dispatched({19})
    /\ OwnPair(pre, 1) = 65535 /\ pre.c = 0
    /\ OwnPair(cpu, 1) = 0

\* the opcodes followed by a two-byte operand that is not a branch target
TwoOperandOps == {1, 17, 33, 49, 34, 42, 50, 58}

\* MVI r / MVI M, and ADI ACI SUI SBI ANI XRI ORI CPI
OneOperandOps == {6 + (8 * i) : i \in 0..7} \cup {198 + (8 * i) : i \in 0..7}

\* the opcodes that assign pc: Jcc, JMP, Ccc, CALL, Rcc, RET, RST, PCHL
BranchOps == JccOps \cup CccOps \cup RccOps \cup RstOps \cup {195, 205, 201, 233}

\* the bytes an instruction occupies: three with a 16-bit operand, two with
\* an 8-bit operand, one otherwise (the reserved opcodes are one-byte no-ops)
encoded_length(op_code) ==
    CASE op_code \in TwoOperandOps \cup JccOps \cup CccOps \cup {195, 205} -> 3
      [] op_code \in OneOperandOps \cup {IN_, OUT} -> 2
      [] OTHER -> 1

\* JMP, CALL, and a Jcc / Ccc whose condition holds on these flags
OperandTaken(op_code, flags) ==
    \/ op_code \in {195, 205}
    \/ op_code \in JccOps \cup CccOps /\ Taken(op_code, flags)

(* C29, as stated: the additional bytes reported are fixed by the opcode   *)
(* alone and equal the encoded length minus one: 2 for LXI, SHLD, LHLD,    *)
(* STA, LDA and a Jcc / Ccc not taken, 1 for MVI and the immediate         *)
(* arithmetic, 0 for every other opcode but HLT; a driver step of a        *)
(* non-branching instruction advances pc by the instruction length.        *)
C29_AsStated ==
    (fn = "update" /\ result.kind = "Ok") =>
        LET op_code == arg[1]
            count   == result.val[1]
        IN  /\ count = encoded_length(op_code) - 1
            /\ op_code \in TwoOperandOps => count = 2
            /\ (op_code \in JccOps \cup CccOps /\ ~Taken(op_code, pre.flags))
                  => count = 2
            /\ op_code \in OneOperandOps => count = 1
            /\ ~(\/ op_code \in TwoOperandOps \cup OneOperandOps
                 \/ op_code \in JccOps \cup CccOps /\ ~Taken(op_code, pre.flags))
                  => count = 0
            /\ op_code \notin BranchOps
                  => cpu.pc = pre.pc + encoded_length(op_code)

(* C29, amended: the additional bytes reported by a driver step that       *)
(* returns are fixed by the opcode, and for Jcc / Ccc by the flag the      *)
(* opcode tests; registers and memory play no part.  They are 0 for JMP,   *)
(* CALL and a Jcc / Ccc that is taken (three-byte instructions: pc becomes *)
(* the operand address), and the encoded length minus one for every other  *)
(* opcode: 2 for LXI, SHLD, LHLD, STA, LDA and a Jcc / Ccc not taken, 1    *)
(* for MVI, the immediate arithmetic and (counted by the driver) IN and    *)
(* OUT, 0 otherwise.  A step of an instruction that is not a branch, or of *)
(* a Jcc / Ccc not taken, advances pc by the instruction length.           *)
C29_AdditionalBytes ==
    (fn = "update" /\ result.kind = "Ok") =>
        LET op_code == arg[1]
            count   == result.val[1]
            taken   == OperandTaken(op_code, pre.flags)
        IN  /\ count = (CASE taken -> 0
                          [] op_code \in TwoOperandOps \cup JccOps \cup CccOps -> 2
                          [] op_code \in OneOperandOps \cup {IN_, OUT} -> 1
                          [] OTHER -> 0)
            /\ ~taken => count = encoded_length(op_code) - 1
            /\ taken =>
                  cpu.pc = read_at(pre.memory, pre.pc + 2) * 256
                             + read_at(pre.memory, pre.pc + 1)
            /\ (op_code \notin BranchOps \/ (op_code \in JccOps \cup CccOps /\ ~taken))
                  => cpu.pc = pre.pc + encoded_length(op_code)

\* a driver step over JNZ with Zero clear: a three-byte instruction, no
\* byte reported, pc at the operand address
C29_Witness ==
    /\ fn = "update" /\ arg = <<194>> /\ result = Ok(0)
    /\ (pre.flags \div 64) % 2 = 0
    /\ cpu.pc = read_at(pre.memory, pre.pc + 2) * 256 + read_at(pre.memory, pre.pc + 1)
    /\ cpu.pc # pre.pc + 3

\* the size of the three regions the mirror repeats
MIRROR_BASE == 16384

(* C30: addresses 0x4000..0xFFFF alias the first 0x4000 bytes: after any   *)
(* sequence of writes, every address a reads the same byte as a mod 0x4000 *)
(* and as every other address congruent to it, so that a write through one *)
(* is visible through the others.                                          *)
C30_MirrorRegion ==
    \A a \in DOMAIN cpu.memory :
        \A k \in 0..3 :
            InBounds((a % MIRROR_BASE) + (k * MIRROR_BASE)) =>
                read_at(cpu.memory, (a % MIRROR_BASE) + (k * MIRROR_BASE))
                    = read_at(cpu.memory, a)

---------------------------------------------------------------------------
\* the floor of the working RAM, below which check_stack_overflow reports
STACK_MIN == 8193

(* C31: a push executed with a stack pointer below the working-RAM floor,  *)
(* down to and including sp = 0 and sp = 1, does not abort; the stack      *)
(* pointer wraps modulo 65536 and every address written is in 0..65535.    *)
C31_UnderflowNonFatal ==
    (fn = "push" /\ pre.sp < STACK_MIN) =>
        /\ result = Unit
        /\ cpu.sp = Wrap16(pre.sp - 2)
        /\ DOMAIN cpu.memory \subseteq 0..65535

---------------------------------------------------------------------------
(* C34: of each complementary pair of conditional instructions exactly one *)
(* transfers control: JNZ / CNZ / RNZ iff Zero is clear and JZ / CZ / RZ   *)
(* iff Zero is set, likewise NC / C on Carry, PO / PE on Parity and P / M  *)
(* on Sign; evaluating the condition changes no flag.  A jump or call that *)
(* transfers control sets pc to its operand, a return pops two bytes.      *)
C34_ConditionDecoding ==
    Dispatched(JccOps \cup CccOps \cup RccOps) =>
        LET op_code == arg[1]
            flag    == CASE op_code \in 192..207 -> "Z"
                         [] op_code \in 208..223 -> "CY"
                         [] op_code \in 224..239 -> "P"
                         [] op_code \in 240..255 -> "S"
            wanted  == (op_code \div 8) % 2
            transferred ==
                IF op_code \in RccOps
                THEN cpu.sp = Wrap16(pre.sp + 2)
                ELSE result = Ok(0) /\ cpu.pc = LittleEndianOperand(pre)
            stayed ==
                cpu.sp = pre.sp /\ cpu.pc = pre.pc
        IN  /\ transferred <=> (check_flag(pre.flags, flag) = wanted)
            /\ stayed <=> (check_flag(pre.flags, flag) # wanted)
            /\ cpu.flags = pre.flags

\* JPE taken with Parity set and Sign clear
C34_Witness ==
    /\ Dispatched({234})
    /\ pre.flags = 68 /\ pre.pc = 5
    /\ cpu.pc = 50132 /\ result = Ok(0)

---------------------------------------------------------------------------
(* C36: in every state reached from Cpu::init by a sequence of opcodes the *)
(* condition asserted in set_flag and clear_flag holds (the low three bits *)
(* of the flags byte are not all set), and no dispatched opcode aborts on  *)
(* that assertion.                                                         *)
C36_FlagAssertionHolds ==
    /\ cpu.flags % 8 # 7
    /\ (fn = "handle_op_code" /\ arg[1] \in {55, 60, 13})
          => result.kind # "Panic"

---------------------------------------------------------------------------
\* the driver executed one of ops and went on
Updated(ops) == fn = "update" /\ arg[1] \in ops /\ result.kind = "Ok"

(* C33: when an enabled interrupt is generated between two instructions,   *)
(* the return address pushed is the pc of the instruction that was about   *)
(* to execute: once the handler executes RET with a balanced stack (at     *)
(* once, or after an instruction that leaves the stack alone), pc and sp   *)
(* are what they were when the interrupt was generated.                    *)
C33_InterruptTransparency ==
    /\ (/\ Updated({201})
        /\ prev.fn = "generate_interrupt" /\ prev.result = Unit
        /\ prev.pre.interrupt_enabled)
          => cpu.pc = prev.pre.pc /\ cpu.sp = prev.pre.sp
    /\ (/\ Updated({201})
        /\ prev.fn = "update" /\ prev.arg = <<60>> /\ prev.result.kind = "Ok"
        /\ prev.before.fn = "generate_interrupt" /\ prev.before.result = Unit
        /\ prev.before.pre.interrupt_enabled)
          => cpu.pc = prev.before.pre.pc /\ cpu.sp = prev.before.pre.sp

\* EI at 0x0140, RST 2 taken before the NOP at 0x0141, INR A and RET in the handler
C33_Witness ==
    /\ Updated({201})
    /\ prev.fn = "update" /\ prev.arg = <<60>>
    /\ prev.before.fn = "generate_interrupt" /\ prev.before.arg = <<215>>
    /\ prev.before.pre.interrupt_enabled /\ prev.before.pre.pc = 321
    /\ pre.pc = 17 /\ pre.sp = 9214
    /\ cpu.pc = 321 /\ cpu.sp = 9216

---------------------------------------------------------------------------
(* Nested subroutines run by update: CALL within CALL within RST, each     *)
(* returning with RET                                                      *)

\* 0x0000: CALL 0x0140; 0x0010: CALL 0x0250; 0x0020: RST 1; each followed by NOPs
\* 0x0140: CALL 0x0250, RET; 0x0250: RST 1, RET; 0x0008: RET
LifoImage ==
    write_at(write_at(write_at(write_at(write_at(write_at(write_at(write_at(
    write_at(write_at(write_at(write_at(write_at(write_at(
    write_at(write_at(write_at(write_at(write_at(write_at(write_at(write_at(
        Memory_init,
        48, 196), 49, 96), 50, 2),
        608, 204), 609, 64), 610, 1), 611, 200), 612, 192),
        0, 205), 1, 64), 2, 1),
        16, 205), 17, 80), 18, 2),
        32, 207),
        320, 205), 321, 80), 322, 2), 323, 201),
        592, 207), 593, 201),
        8, 201)

\* the programs: three, two and one subroutine deep, and one of conditional
\* calls and returns (CNZ taken, CZ and RZ not taken, RNZ taken)
LifoEntries == {0, 16, 32, 48}

\* the return addresses pushed and not yet returned to, innermost last: CALL
\* at pc, and Ccc when its condition holds, leaves pc + 3, RST at pc leaves
\* pc + 1; RET, and Rcc when its condition holds, takes the innermost away.
\* st is the Cpu the instruction started on.
track(tr, op_code, st, res) ==
    IF res.kind # "Ok" THEN tr
    ELSE IF \/ op_code = 205
            \/ /\ op_code \in CccOps
               /\ condition_of(st.flags, (op_code \div 8) % 8) = Some(TRUE)
    THEN [tr EXCEPT !.outstanding = Append(@, Wrap16(st.pc + 3)), !.due = <<>>]
    ELSE IF op_code \in RstOps
    THEN [tr EXCEPT !.outstanding = Append(@, Wrap16(st.pc + 1)), !.due = <<>>]
    ELSE IF /\ \/ op_code = 201
               \/ /\ op_code \in RccOps
                  /\ condition_of(st.flags, (op_code \div 8) % 8) = Some(TRUE)
            /\ tr.outstanding # <<>>
    THEN [tr EXCEPT !.outstanding = SubSeq(@, 1, Len(@) - 1),
                    !.due = <<tr.outstanding[Len(tr.outstanding)]>>]
    ELSE [tr EXCEPT !.due = <<>>]

InitLifo ==
    /\ \E p \in LifoEntries :
          cpu = [Cpu_init EXCEPT !.memory = LifoImage, !.pc = p]
    /\ hardware = Hardware_init /\ pre_hardware = Hardware_init
    /\ overflow_checks \in BOOLEAN
    /\ daa_outcome = DaaUnmet
    /\ fn = "none" /\ arg = <<>> /\ pre = Cpu_init /\ result = NoResult
    /\ prev = NoCall
    /\ steps = 0
    /\ frame = Frame_init /\ trace = Trace_init

TrackedUpdate(keys) ==
    /\ Recorded("update", <<read_at(cpu.memory, cpu.pc)>>)
    /\ UNCHANGED frame
    /\ \E out \in {update(overflow_checks, keys, hardware, cpu)} :
          /\ cpu' = out.cpu /\ hardware' = out.hardware /\ result' = out.result
          /\ trace' = track(trace, read_at(cpu.memory, cpu.pc), cpu, out.result)

LifoStep ==
    /\ steps < MaxLifoSteps
    /\ \E keys \in DriverKeys : TrackedUpdate(keys)

NextLifo == LifoStep

SpecLifo == InitLifo /\ [][NextLifo]_vars

(* C35: the stack is last-in first-out.  After n CALL or RST executions    *)
(* pushing return addresses r1 .. rn, n successive RET executions set pc   *)
(* to rn .. r1 in that order and sp is then what it was before the first   *)
(* CALL; at every point sp is the initial sp minus twice the number of     *)
(* outstanding pushes.                                                     *)
C35_StackIsLifo ==
    result.kind # "Panic" =>
        /\ cpu.sp = Cpu_init.sp - (2 * Len(trace.outstanding))
        /\ (Updated({201} \cup RccOps) /\ trace.due # <<>>) => cpu.pc = trace.due[1]

\* three deep (CALL, CALL, RST 1), then the third RET returns to 0x0003
C35_Witness ==
    /\ Updated({201}) /\ trace.due = <<3>> /\ trace.outstanding = <<>>
    /\ prev.fn = "update" /\ prev.arg = <<201>> /\ prev.pre.pc = 593
    /\ prev.before.fn = "update" /\ prev.before.arg = <<201>>
    /\ prev.before.pre.pc = 8
    /\ pre.pc = 323 /\ cpu.pc = 3 /\ cpu.sp = Cpu_init.sp

---------------------------------------------------------------------------
(* The run loop of main: update until half the cycles of a frame are       *)
(* spent, the mid-screen interrupt, update until all are spent, the        *)
(* full-screen interrupt, render                                           *)

\* the cycles of each opcode, 0x00 first, sixteen to a row
CLOCK_CYCLES ==
    <<4, 10,  7,  5,  5,  5,  7,  4,  4, 10,  7,  5,  5,  5,  7,  4,
        4, 10,  7,  5,  5,  5,  7,  4,  4, 10,  7,  5,  5,  5,  7,  4,
        4, 10, 16,  5,  5,  5,  7,  4,  4, 10, 16,  5,  5,  5,  7,  4,
        4, 10, 13,  5, 10, 10, 10,  4,  4, 10, 13,  5,  5,  5,  7,  4,
        5,  5,  5,  5,  5,  5,  7,  5,  5,  5,  5,  5,  5,  5,  7,  5,
        5,  5,  5,  5,  5,  5,  7,  5,  5,  5,  5,  5,  5,  5,  7,  5,
        5,  5,  5,  5,  5,  5,  7,  5,  5,  5,  5,  5,  5,  5,  7,  5,
        7,  7,  7,  7,  7,  7,  7,  7,  5,  5,  5,  5,  5,  5,  7,  5,
        4,  4,  4,  4,  4,  4,  7,  4,  4,  4,  4,  4,  4,  4,  7,  4,
        4,  4,  4,  4,  4,  4,  7,  4,  4,  4,  4,  4,  4,  4,  7,  4,
        4,  4,  4,  4,  4,  4,  7,  4,  4,  4,  4,  4,  4,  4,  7,  4,
        4,  4,  4,  4,  4,  4,  7,  4,  4,  4,  4,  4,  4,  4,  7,  4,
       11, 10, 10, 10, 17, 11,  7, 11, 11, 10, 10, 10, 10, 17,  7, 11,
       11, 10, 10, 10, 17, 11,  7, 11, 11, 10, 10, 10, 10, 17,  7, 11,
       11, 10, 10, 18, 17, 11,  7, 11, 11,  5, 10,  5, 17, 17,  7, 11,
       11, 10, 10,  4, 17, 11,  7, 11, 11,  5, 10,  4, 17, 17,  7, 11 >>

cycle_max == 33000

\* (variant used to test C32) a first loop that runs for the whole frame
first_loop_runs_whole_frame(frame_cycles) == frame_cycles < cycle_max

\* while frame_cycles < cycle_max / 2
first_loop_runs(frame_cycles) == frame_cycles < cycle_max \div 2

\* while frame_cycles < cycle_max
second_loop_runs(frame_cycles) == frame_cycles < cycle_max

\* (variant used to test C37) the cycles of the last update, not their sum
accumulate_overwrites(frame_cycles, cycles) == cycles

\* frame_cycles += update(..)
accumulate(frame_cycles, cycles) == frame_cycles + cycles

\* nothing but NOP; a tight JMP loop; EI and a loop of INR A and JMP with
\* handlers that return; a NOP and a HLT
FrameImages ==
    { Memory_init,
      write_at(Memory_init, 0, 195),
      write_at(write_at(write_at(write_at(write_at(write_at(Memory_init,
          0, 251), 1, 60), 2, 195), 3, 1), 8, 201), 16, 201),
      write_at(Memory_init, 1, 118) }

FrameKeys == {<<0, 0>>, <<1, 0>>}

InitFrame ==
    /\ \E image \in FrameImages : cpu = [Cpu_init EXCEPT !.memory = image]
    /\ hardware = Hardware_init /\ pre_hardware = Hardware_init
    /\ overflow_checks \in BOOLEAN
    /\ daa_outcome = DaaUnmet
    /\ fn = "none" /\ arg = <<>> /\ pre = Cpu_init /\ result = NoResult
    /\ prev = NoCall
    /\ steps = 0
    /\ frame = Frame_init /\ trace = Trace_init

\* one pass through the body of either inner loop
FrameUpdate(keys) ==
    /\ \/ frame.at = "first_loop" /\ trace.frames < MaxFrames
          /\ first_loop_runs(frame.frame_cycles)
       \/ frame.at = "second_loop" /\ second_loop_runs(frame.frame_cycles)
    /\ Recorded("update", <<read_at(cpu.memory, cpu.pc)>>)
    /\ \E out \in {update(overflow_checks, keys, hardware, cpu)} :
          /\ cpu' = out.cpu /\ hardware' = out.hardware /\ result' = out.result
          /\ IF out.result = Panicked
             THEN UNCHANGED <<frame, trace>>
             ELSE /\ frame' = [frame EXCEPT !.frame_cycles =
                                  accumulate(@, CLOCK_CYCLES[read_at(cpu.memory, cpu.pc) + 1])]
                  /\ trace' = [trace EXCEPT !.updates = @ + 1, !.since = @ + 1]

\* a loop is left and the interrupt after it is requested
FrameInterrupt(op_code, next) ==
    /\ Recorded("generate_interrupt", <<op_code>>)
    /\ UNCHANGED hardware
    /\ \E out \in {generate_interrupt(overflow_checks, op_code, cpu)} :
          /\ cpu' = out.cpu /\ result' = out.result
          /\ IF out.result = Panicked
             THEN UNCHANGED <<frame, trace>>
             ELSE /\ frame' = [frame EXCEPT !.at = next]
                  /\ trace' = [trace EXCEPT
                        !.requests = Append(@, [op_code |-> op_code,
                                                frame_cycles |-> frame.frame_cycles,
                                                since |-> trace.since,
                                                frame |-> trace.frames]),
                        !.since = 0]

UpdateInFrame == \E keys \in FrameKeys : FrameUpdate(keys)

MidInterrupt ==
    /\ frame.at = "first_loop" /\ trace.frames < MaxFrames
    /\ ~first_loop_runs(frame.frame_cycles)
    /\ FrameInterrupt(207, "second_loop")

FullInterrupt ==
    /\ frame.at = "second_loop"
    /\ ~second_loop_runs(frame.frame_cycles)
    /\ FrameInterrupt(215, "render")

\* render reads the machine and draws; the next iteration starts at 0 cycles
Render ==
    /\ frame.at = "render"
    /\ Recorded("render", <<>>)
    /\ UNCHANGED <<cpu, hardware>>
    /\ result' = Unit
    /\ frame' = Frame_init
    /\ trace' = [trace EXCEPT !.frames = @ + 1, !.updates = 0]

NextFrame == UpdateInFrame \/ MidInterrupt \/ FullInterrupt \/ Render

SpecFrame == InitFrame /\ [][NextFrame]_vars

(* C32: in every iteration of the run loop the driver executes             *)
(* instructions until the frame's cycle count is at least 16,500, then     *)
(* requests RST 1 (0xcf) exactly once, continues until the count is at     *)
(* least 33,000, then requests RST 2 (0xd7) exactly once, and only then    *)
(* renders; over the whole run the requests alternate 0xcf, 0xd7, 0xcf,    *)
(* 0xd7 .. with at least one instruction executed between two requests.    *)
C32_FrameSchedule ==
    /\ \A i \in 1..Len(trace.requests) :
          LET request == trace.requests[i]
          IN  /\ request.op_code = (IF i % 2 = 1 THEN 207 ELSE 215)
              /\ request.frame_cycles >= (IF i % 2 = 1 THEN 16500 ELSE 33000)
              /\ request.since >= 1
              /\ request.frame = (i - 1) \div 2
    /\ Len(trace.requests) =
          (2 * trace.frames) + (CASE frame.at = "first_loop"  -> 0
                                  [] frame.at = "second_loop" -> 1
                                  [] frame.at = "render"      -> 2)
    /\ Updated(0..255) =>
          frame.frame_cycles - CLOCK_CYCLES[arg[1] + 1]
              < (IF frame.at = "first_loop" THEN 16500 ELSE 33000)

\* the second frame of the tight JMP loop is about to be rendered
C32_Witness ==
    /\ frame.at = "render" /\ trace.frames = 1
    /\ Len(trace.requests) = 4
    /\ trace.requests[3].op_code = 207 /\ trace.requests[3].frame_cycles = 16500
    /\ trace.requests[4].op_code = 215 /\ trace.requests[4].frame_cycles = 33000
    /\ trace.requests[4].since = 1650
    /\ read_at(cpu.memory, 0) = 195

\* how far the run is from its last render: frames to go, then steps of the
\* frame to go (first loop, second loop, render), then cycles to spend; an
\* update may overshoot cycle_max by less than the dearest opcode, 18 cycles
FRAME_SPAN == cycle_max + 19

FrameMeasure ==
    ((MaxFrames - trace.frames) * 3 * FRAME_SPAN)
    + ((CASE frame.at = "first_loop"  -> 2
          [] frame.at = "second_loop" -> 1
          [] frame.at = "render"      -> 0) * FRAME_SPAN)
    + ((FRAME_SPAN - 1) - frame.frame_cycles)

(* C37: every entry of the cycle table is at least 4, so each update call  *)
(* that returns strictly increases the frame's cycle count; a frame makes  *)
(* at most 8,250 update calls, and unless an instruction aborts or halts   *)
(* the two inner loops terminate and both interrupts and the render are    *)
(* reached, whatever the program (a tight JMP loop included): every step   *)
(* that returns brings the render nearer, and at the render both           *)
(* interrupts of the frame have been requested.                            *)
C37_FrameProgress ==
    /\ [](\A op_code \in 0..255 : CLOCK_CYCLES[op_code + 1] >= 4)
    /\ [][(fn' = "update" /\ result'.kind = "Ok")
            => frame'.frame_cycles > frame.frame_cycles]_vars
    /\ [](trace.updates <= 8250)
    /\ [](FrameMeasure >= 0)
    /\ [][result'.kind # "Panic" => FrameMeasure' < FrameMeasure]_vars
    /\ [](frame.at = "render" =>
            /\ Len(trace.requests) = (2 * trace.frames) + 2
            /\ frame.frame_cycles >= cycle_max)

\* a frame of NOPs is about to be rendered after exactly 8,250 update calls
C37_Witness ==
    /\ frame.at = "render"
    /\ trace.updates = 8250
    /\ frame.frame_cycles = 33000
    /\ Len(trace.requests) = 2

====
